---- MODULE Spec2Model ----
(***************************************************************************)
(* Model of the actor dataflow scheduler core, AbstractActor               *)
(* (runtime/graph_scheduler/actor/abstract_actor.cc).                      *)
(*                                                                         *)
(* One action is one message handler of one actor, run to completion:      *)
(* RunOpData, RunOpControl or RunBatchOpData together with the Run,        *)
(* EraseInput and SendOutput they call.  ActorDispatcher::Send appends to  *)
(* the destination's mailbox; the destination handles its mailbox in       *)
(* arrival order.                                                          *)
(***************************************************************************)
EXTENDS Integers, Sequences, FiniteSets, TLC

(***************************************************************************)
(* Bounds of the model.                                                    *)
(***************************************************************************)
\* Data messages the caller dispatches into the entry actor, over all runs.
MaxInject == 2

\* The sequential numbers of the runs in flight (two concurrent runs).
Runs == {1, 2}

(***************************************************************************)
(* The static actor graph.                                                 *)
(*   X --data--> Y          X --data--> Z                                  *)
(*   Z --batch(2)--> W      Z --data--> S_StackActor    Z --control--> Y   *)
(***************************************************************************)
Actors == {"X", "Y", "Z", "W", "S_StackActor"}

\* The actor the caller dispatches data messages to.
EntryActor == "X"

NullData == 0

\* to_op_name.find(kStackActorNameSuffix) != std::string::npos
IsStackActorName(name) == name \in {"S_StackActor"}

\* KernelTransformType, in declaration order.
KernelTransformType ==
  <<"kKernelActor", "kOutputActor", "kSwitchActor", "kStackActor">>

TypeIndex(t) == CHOOSE i \in 1..Len(KernelTransformType) : KernelTransformType[i] = t

type_(a) == IF IsStackActorName(a) THEN "kStackActor" ELSE "kKernelActor"

\* type_ < KernelTransformType::kSwitchActor
IsBeforeSwitchActor(a) == TypeIndex(type_(a)) < TypeIndex("kSwitchActor")

DataArrow(to, idx, flag) ==
  [to_op_id_ |-> to, to_input_index_ |-> idx, flag_ |-> flag]

output_data_arrows_(a) ==
  CASE a = "X" -> << DataArrow("Y", 0, "kOutputDataFalgInit"),
                     DataArrow("Z", 0, "kOutputDataFalgInit") >>
    [] a = "Z" -> << DataArrow("W", 0, "kOutputDataFalgBatch"),
                     DataArrow("W", 1, "kOutputDataFalgBatch"),
                     DataArrow("S_StackActor", 0, "kOutputDataFalgInit") >>
    [] OTHER   -> << >>

output_control_arrows_(a) == IF a = "Z" THEN << "Y" >> ELSE << >>

\* The number of arrows of a list that go to a destination with the Batch flag.
BatchArrowsSize(arrows, to) ==
  Cardinality({i \in 1..Len(arrows) :
                 /\ arrows[i].to_op_id_ = to
                 /\ arrows[i].flag_ = "kOutputDataFalgBatch"})

\* batch_output_data_arrows_[to_op_name].size()
batch_output_data_arrows_(a, to) == BatchArrowsSize(output_data_arrows_(a), to)

(***************************************************************************)
(* InitOutputData: one cached envelope per output data arrow, with the     *)
(* flag the send loop dispatches on, and the per-destination batch lists   *)
(* (positions in output_data_ of the envelopes they point to).             *)
(***************************************************************************)
OpData(op_id, data, index) == [op_id_ |-> op_id, data_ |-> data, index_ |-> index]

\* The loop of InitOutputData without the check for a stack destination.
RECURSIVE InitOutputDataFrom_NoStackCheck(_, _, _, _, _)
InitOutputDataFrom_NoStackCheck(arrows, i, out, batch, batch_op_count) ==
  IF i > Len(arrows)
    THEN [output_data_ |-> out, batch_output_data_ |-> batch, exception |-> FALSE]
    ELSE
      LET data_arrow == arrows[i]
          to_op_name == data_arrow.to_op_id_
          data == OpData(data_arrow.to_op_id_, NullData, data_arrow.to_input_index_)
          init_flag == IF IsStackActorName(to_op_name) THEN "kOutputDataFalgToStack"
                                                       ELSE "kOutputDataFalgInit"
          count == batch_op_count[to_op_name] + 1
          output_data_flag == IF count = BatchArrowsSize(arrows, to_op_name)
                                THEN "kOutputDataFalgLastBatch"
                                ELSE "kOutputDataFalgBatch"
      IN IF data_arrow.flag_ = "kOutputDataFalgBatch"
           THEN InitOutputDataFrom_NoStackCheck(arrows, i + 1,
                  Append(out, [first |-> data, second |-> output_data_flag]),
                  [batch EXCEPT ![to_op_name] = Append(@, i)],
                  [batch_op_count EXCEPT ![to_op_name] = count])
           ELSE InitOutputDataFrom_NoStackCheck(arrows, i + 1,
                  Append(out, [first |-> data, second |-> init_flag]),
                  batch, batch_op_count)

\* The loop of InitOutputData over a list of data arrows, from position i on.
RECURSIVE InitOutputDataFrom(_, _, _, _, _)
InitOutputDataFrom(arrows, i, out, batch, batch_op_count) ==
  IF i > Len(arrows)
    THEN [output_data_ |-> out, batch_output_data_ |-> batch, exception |-> FALSE]
    ELSE
      LET data_arrow == arrows[i]
          to_op_name == data_arrow.to_op_id_
          data == OpData(data_arrow.to_op_id_, NullData, data_arrow.to_input_index_)
          is_to_stack == IsStackActorName(to_op_name)
          init_flag == IF is_to_stack THEN "kOutputDataFalgToStack"
                                      ELSE "kOutputDataFalgInit"
      IN IF data_arrow.flag_ = "kOutputDataFalgBatch"
           THEN IF is_to_stack
                  THEN [output_data_ |-> out, batch_output_data_ |-> batch,
                        exception |-> TRUE]
                  ELSE
                    LET count == batch_op_count[to_op_name] + 1
                        output_data_flag ==
                          IF count = BatchArrowsSize(arrows, to_op_name)
                            THEN "kOutputDataFalgLastBatch"
                            ELSE "kOutputDataFalgBatch"
                    IN InitOutputDataFrom(arrows, i + 1,
                         Append(out, [first |-> data, second |-> output_data_flag]),
                         [batch EXCEPT ![to_op_name] = Append(@, i)],
                         [batch_op_count EXCEPT ![to_op_name] = count])
           ELSE InitOutputDataFrom(arrows, i + 1,
                  Append(out, [first |-> data, second |-> init_flag]),
                  batch, batch_op_count)

InitOutputData(a) ==
  InitOutputDataFrom(output_data_arrows_(a), 1, << >>,
                     [d \in Actors |-> << >>], [d \in Actors |-> 0])

(***************************************************************************)
(* State.                                                                  *)
(***************************************************************************)
VARIABLES
  input_datas_num_,     \* [actor -> declared number of input data]
  input_controls_num_,  \* [actor -> declared number of input controls]
  output_data_nodes_,   \* [actor -> size of output_data_nodes_]
  output_data_,         \* [actor -> cached envelopes with their send flag]
  batch_output_data_,   \* [actor -> [destination -> positions in output_data_]]
  to_stack_data_,       \* [actor -> envelopes allocated for stack actors]
  input_op_datas_,      \* [actor -> map: sequential num -> envelope pointers]
  input_op_controls_,   \* [actor -> map: sequential num -> sender ids]
  mailbox,              \* [actor -> messages sent to it and not yet handled]
  context,              \* [run -> terminal signals set on the run's OpContext]
  injected,             \* [run -> data messages dispatched by the caller]
  delivered,            \* history: [actor -> [run -> RunOpData calls]]
  runCount,             \* history: [actor -> [run -> Run calls]]
  sent,                 \* history: [actor -> [run -> per arrow, RunOpData sends]]
  last,                 \* history: the handler call that ran last
  solo                  \* reference: [actor -> [run -> the actor's pending state and
                        \* firings had it received the messages of that run only]]

\* The actor runtime's variables.
actorVars == << input_datas_num_, input_controls_num_, output_data_nodes_, output_data_,
                batch_output_data_, to_stack_data_, input_op_datas_, input_op_controls_,
                mailbox, context, injected, delivered, runCount, sent, last, solo >>

\* The gradient tape (KPynativeCellImpl) and the nodes it reads.
VARIABLES
  k_cell,                        \* the handle GradPynativeCellBegin returned
  tape_,                         \* the tape graph: parameters, output
  anfnode_to_adjoin_,            \* OrderedMap: node -> adjoint, in insertion order
  cell_inputs_,                  \* the declared inputs
  last_node_,                    \* the last recorded cnode
  need_propagate_stop_gradient_, \* the tape-wide flag
  stop_gradient_,                \* [cnode -> CNode::stop_gradient()]
  ret,                           \* history: outcome of the last call on the tape
  events,                        \* history: what the last Finish did, in order
  calls                          \* history: calls made on the tape, counted

tapeVars == << k_cell, tape_, anfnode_to_adjoin_, cell_inputs_, last_node_,
               need_propagate_stop_gradient_, stop_gradient_, ret, events, calls >>

\* A function applied on its own to drawn arguments: the call and its result.
VARIABLES call

vars == << actorVars, tapeVars, call >>

\* No tape was begun and no function was applied on its own.
NoCell ==
  /\ k_cell = "nullptr"
  /\ tape_ = [parameters |-> << >>, output |-> << >>, replaced |-> << >>]
  /\ anfnode_to_adjoin_ = << >>
  /\ cell_inputs_ = << >>
  /\ last_node_ = "nullptr"
  /\ need_propagate_stop_gradient_ = FALSE
  /\ stop_gradient_ = << >>
  /\ ret = [op |-> "none"]
  /\ events = << >>
  /\ calls = [records |-> 0, finishes |-> 0, others |-> 0]

NoCall == call = [op |-> "none"]


(***************************************************************************)
(* The program state the handlers read and write, as one record.           *)
(***************************************************************************)
State ==
  [input_op_datas_ |-> input_op_datas_, input_op_controls_ |-> input_op_controls_,
   output_data_ |-> output_data_, to_stack_data_ |-> to_stack_data_,
   mailbox |-> mailbox, context |-> context]

\* F applied to the value of x, x evaluated once.
Let(x, F(_)) == CHOOSE r \in {F(v) : v \in {x}} : TRUE

\* A map keyed by sequential number: a function whose domain is the present keys.
EmptyMap == [seq \in {} |-> << >>]

\* emplace_back that loses what the entry held: the entry becomes << x >>.
MapEmplaceBack_Overwrite(m, key, x) ==
  (key :> << x >>) @@ [seq \in (DOMAIN m) \ {key} |-> m[seq]]

\* m[key].emplace_back(x): operator[] creates the entry when absent.
MapEmplaceBack(m, key, x) ==
  IF key \in DOMAIN m THEN [m EXCEPT ![key] = Append(@, x)]
                      ELSE (key :> << x >>) @@ m

\* m.erase(key): the number of entries removed, and the map afterwards.
MapErase(m, key) ==
  [ret |-> IF key \in DOMAIN m THEN 1 ELSE 0,
   map |-> [seq \in (DOMAIN m) \ {key} |-> m[seq]]]

\* Pointers to envelopes.
CachePtr(a, i) == [kind |-> "cache", own |-> a, i |-> i]
StackPtr(a, i) == [kind |-> "stack", own |-> a, i |-> i]
CallerPtr(seq) == [kind |-> "caller", own |-> "caller", i |-> seq]
BatchPtr(a)    == [kind |-> "batch", own |-> a, i |-> 0]
NoPtr          == [kind |-> "none", own |-> "none", i |-> 0]

\* The envelope a pointer refers to, as it is now.
Deref(st, p) ==
  CASE p.kind = "cache"  -> st.output_data_[p.own][p.i].first
    [] p.kind = "stack"  -> st.to_stack_data_[p.own][p.i]
    [] p.kind = "caller" -> OpData(EntryActor, p.i, 0)
    [] OTHER             -> OpData("none", NullData, 0)

Message(method, data, from, seq) ==
  [method |-> method, data |-> data, from |-> from, seq |-> seq]

\* ActorDispatcher::Send(to, method, args, context)
Send(st, to, msg) == [st EXCEPT !.mailbox[to] = Append(@, msg)]

\* OpContext::SetFailed / SetSuccess, as used by the SET_OPCONTEXT_* macros.
SetFailed(st, seq)  == [st EXCEPT !.context[seq] = Append(@, "failed")]
SetSuccess(st, seq) == [st EXCEPT !.context[seq] = Append(@, "success")]

(***************************************************************************)
(* CheckRunningCondition                                                   *)
(***************************************************************************)
\* CheckCount with "<=" for "<": an exact count never passes.
CheckCount_LessEqual(map, seq, need) ==
  IF need # 0
    THEN IF seq \notin DOMAIN map THEN "false"
         ELSE IF Len(map[seq]) <= need THEN "false"
         ELSE IF Len(map[seq]) > need THEN "error"
         ELSE "pass"
    ELSE "pass"

\* CheckCount without the branch for a count above the requirement.
CheckCount_NoOverflowBranch(map, seq, need) ==
  IF need # 0
    THEN IF seq \notin DOMAIN map THEN "false"
         ELSE IF Len(map[seq]) < need THEN "false"
         ELSE "pass"
    ELSE "pass"

\* One dimension of the check: "pass" falls through to what follows,
\* "false" and "error" both return false, "error" after MS_LOG(ERROR).
CheckCount(map, seq, need) ==
  IF need # 0
    THEN IF seq \notin DOMAIN map THEN "false"
         ELSE IF Len(map[seq]) < need THEN "false"
         ELSE IF Len(map[seq]) > need THEN "error"
         ELSE "pass"
    ELSE "pass"

\* CheckRunningCondition returning after the data dimension.
CheckRunningCondition_DataOnly(st, a, seq) ==
  LET data == CheckCount(st.input_op_datas_[a], seq, input_datas_num_[a])
  IN IF data # "pass"
       THEN [ret |-> FALSE, error |-> IF data = "error" THEN "data" ELSE "none"]
       ELSE [ret |-> TRUE, error |-> "none"]

CheckRunningCondition(st, a, seq) ==
  LET data == CheckCount(st.input_op_datas_[a], seq, input_datas_num_[a])
      control == CheckCount(st.input_op_controls_[a], seq, input_controls_num_[a])
  IN IF data # "pass"
       THEN [ret |-> FALSE, error |-> IF data = "error" THEN "data" ELSE "none"]
       ELSE IF control # "pass"
         THEN [ret |-> FALSE, error |-> IF control = "error" THEN "control" ELSE "none"]
         ELSE [ret |-> TRUE, error |-> "none"]

(***************************************************************************)
(* EraseInput                                                              *)
(***************************************************************************)
\* EraseInput clearing both maps instead of erasing the run's entries.
EraseInput_ClearAll(st, a, seq) ==
  [st |-> [st EXCEPT !.input_op_datas_[a] = EmptyMap,
                     !.input_op_controls_[a] = EmptyMap],
   error |-> "none"]

\* EraseInput without its second half: the control entry is never erased.
EraseInput_DataOnly(st, a, seq) ==
  LET datas == st.input_op_datas_[a]
      do_data == (input_datas_num_[a] # 0) /\ (DOMAIN datas # {})
      data_ret == MapErase(datas, seq)
  IN [st |-> IF do_data THEN [st EXCEPT !.input_op_datas_[a] = data_ret.map] ELSE st,
      error |-> IF do_data /\ data_ret.ret = 0 THEN "data" ELSE "none"]

EraseInput(st, a, seq) ==
  LET datas == st.input_op_datas_[a]
      controls == st.input_op_controls_[a]
      do_data == (input_datas_num_[a] # 0) /\ (DOMAIN datas # {})
      data_ret == MapErase(datas, seq)
      st1 == IF do_data THEN [st EXCEPT !.input_op_datas_[a] = data_ret.map] ELSE st
      do_control == (input_controls_num_[a] # 0) /\ (DOMAIN controls # {})
      control_ret == MapErase(controls, seq)
  IN IF do_data /\ data_ret.ret = 0
       THEN [st |-> st1, error |-> "data"]
       ELSE IF do_control
         THEN [st |-> [st1 EXCEPT !.input_op_controls_[a] = control_ret.map],
               error |-> IF control_ret.ret = 0 THEN "control" ELSE "none"]
         ELSE [st |-> st1, error |-> "none"]

(***************************************************************************)
(* SendOutput                                                              *)
(***************************************************************************)
\* The value the actor computed for the run: tagged with the run.
OutputValue(a, seq) == seq

\* UpdateOutputData: refresh the cached envelope's payload in place.
UpdateOutputData(st, a, i, seq) ==
  [st EXCEPT !.output_data_[a][i].first.data_ = OutputValue(a, seq)]

Event(kind, to, arrow) == [kind |-> kind, to |-> to, arrow |-> arrow]

\* SendKind with "==" for "!=" in the last branch: Init envelopes are not sent.
SendKind_SkipInit(output_data_flag) ==
  IF output_data_flag = "kOutputDataFalgLastBatch" THEN "batch"
  ELSE IF output_data_flag = "kOutputDataFalgToStack" THEN "stack"
  ELSE IF output_data_flag = "kOutputDataFalgBatch" THEN "data"
  ELSE "none"

\* SendKind flushing the batch list at every batch envelope.
SendKind_FlushEveryBatch(output_data_flag) ==
  IF output_data_flag \in {"kOutputDataFalgLastBatch", "kOutputDataFalgBatch"} THEN "batch"
  ELSE IF output_data_flag = "kOutputDataFalgToStack" THEN "stack"
  ELSE "data"

\* SendKind sending the cached envelope to a stack actor as to any other.
SendKind_StackAsData(output_data_flag) ==
  IF output_data_flag = "kOutputDataFalgLastBatch" THEN "batch"
  ELSE IF output_data_flag # "kOutputDataFalgBatch" THEN "data"
  ELSE "none"

\* What the send loop does with an envelope of a given flag.
SendKind(output_data_flag) ==
  IF output_data_flag = "kOutputDataFalgLastBatch" THEN "batch"
  ELSE IF output_data_flag = "kOutputDataFalgToStack" THEN "stack"
  ELSE IF output_data_flag # "kOutputDataFalgBatch" THEN "data"
  ELSE "none"

\* The send loop sending each envelope before refreshing it.
RECURSIVE SendOutputData_SendThenUpdate(_, _, _, _, _)
SendOutputData_SendThenUpdate(st, a, seq, i, log) ==
  IF i > Len(st.output_data_[a])
    THEN [st |-> st, log |-> log]
    ELSE
      LET output_data == st.output_data_[a][i]
          to_op_id == output_data.first.op_id_
          kind == SendKind(output_data.second)
          to_stack_data ==
            OpData(to_op_id, output_data.first.data_, output_data.first.index_)
          st2 == [st EXCEPT !.to_stack_data_[a] = Append(@, to_stack_data)]
          msg == IF kind = "batch" THEN Message("RunBatchOpData", BatchPtr(a), a, seq)
                 ELSE IF kind = "stack"
                   THEN Message("RunOpData", StackPtr(a, Len(st2.to_stack_data_[a])), a, seq)
                   ELSE Message("RunOpData", CachePtr(a, i), a, seq)
          after == IF kind = "none" THEN st
                   ELSE Send(IF kind = "stack" THEN st2 ELSE st, to_op_id, msg)
          log1 == IF kind = "none" THEN log ELSE Append(log, Event(kind, to_op_id, i))
      IN SendOutputData_SendThenUpdate(
           UpdateOutputData(after, a, i, seq), a, seq, i + 1,
           Append(log1, Event("update", to_op_id, i)))

\* The send loop over output_data_, from position i on.
RECURSIVE SendOutputData(_, _, _, _, _)
SendOutputData(st, a, seq, i, log0) ==
  IF i > Len(st.output_data_[a])
    THEN [st |-> st, log |-> log0]
    ELSE
      Let(UpdateOutputData(st, a, i, seq), LAMBDA st1 :
      LET output_data == st1.output_data_[a][i]
          to_op_id == output_data.first.op_id_
          kind == SendKind(output_data.second)
          log == Append(log0, Event("update", to_op_id, i))
      IN IF kind = "batch"
           THEN SendOutputData(
                  Send(st1, to_op_id, Message("RunBatchOpData", BatchPtr(a), a, seq)),
                  a, seq, i + 1, Append(log, Event("batch", to_op_id, i)))
           ELSE IF kind = "stack"
             THEN LET to_stack_data ==
                        OpData(to_op_id, output_data.first.data_, output_data.first.index_)
                      st2 == [st1 EXCEPT !.to_stack_data_[a] = Append(@, to_stack_data)]
                      back == StackPtr(a, Len(st2.to_stack_data_[a]))
                  IN SendOutputData(
                       Send(st2, to_op_id, Message("RunOpData", back, a, seq)),
                       a, seq, i + 1, Append(log, Event("stack", to_op_id, i)))
             ELSE IF kind = "data"
               THEN SendOutputData(
                      Send(st1, to_op_id, Message("RunOpData", CachePtr(a, i), a, seq)),
                      a, seq, i + 1, Append(log, Event("data", to_op_id, i)))
               ELSE SendOutputData(st1, a, seq, i + 1, log))

\* SendOutput's second part left out: no control message is sent.
SendOutputControl_None(st, a, seq, i, log) == [st |-> st, log |-> log]

\* The loop over output_control_arrows_, from position i on.
RECURSIVE SendOutputControl(_, _, _, _, _)
SendOutputControl(st, a, seq, i, log) ==
  IF i > Len(output_control_arrows_(a))
    THEN [st |-> st, log |-> log]
    ELSE LET output_control == output_control_arrows_(a)[i]
         IN SendOutputControl(
              Send(st, output_control, Message("RunOpControl", NoPtr, a, seq)),
              a, seq, i + 1, Append(log, Event("control", output_control, i)))

\* SendRecorderInfo: a step of the sender that changes none of this state.
SendRecorderInfo(r) == [st |-> r.st, log |-> Append(r.log, Event("recorder", "none", 0))]

\* SendOutput sending the output control before the output data.
SendOutput_ControlFirst(st, a, seq) ==
  LET arrows == Len(output_data_arrows_(a))
  IN IF (arrows # Len(st.output_data_[a]) \/ arrows # output_data_nodes_[a])
        /\ IsBeforeSwitchActor(a)
       THEN [st |-> SetFailed(st, seq), log |-> << Event("failed", "none", 0) >>]
       ELSE
         Let(SendOutputControl(st, a, seq, 1, << >>), LAMBDA c :
         Let(SendOutputData(c.st, a, seq, 1, c.log), LAMBDA d :
         Let(SendRecorderInfo(d), LAMBDA r :
           IF arrows = 0 /\ Len(output_control_arrows_(a)) = 0 /\ IsBeforeSwitchActor(a)
             THEN [st |-> SetSuccess(r.st, seq),
                   log |-> Append(r.log, Event("success", "none", 0))]
             ELSE r)))

\* SendOutput recording the failure and going on instead of returning.
SendOutput_FailAndGoOn(st, a, seq) ==
  LET arrows == Len(output_data_arrows_(a))
      bad == (arrows # Len(st.output_data_[a]) \/ arrows # output_data_nodes_[a])
               /\ IsBeforeSwitchActor(a)
      st0 == IF bad THEN SetFailed(st, seq) ELSE st
      log0 == IF bad THEN << Event("failed", "none", 0) >> ELSE << >>
  IN Let(SendOutputData(st0, a, seq, 1, log0), LAMBDA d :
     Let(SendOutputControl(d.st, a, seq, 1, d.log), LAMBDA c :
     Let(SendRecorderInfo(c), LAMBDA r :
       IF arrows = 0 /\ Len(output_control_arrows_(a)) = 0 /\ IsBeforeSwitchActor(a)
         THEN [st |-> SetSuccess(r.st, seq),
               log |-> Append(r.log, Event("success", "none", 0))]
         ELSE r)))

SendOutput(st, a, seq) ==
  LET arrows == Len(output_data_arrows_(a))
  IN IF (arrows # Len(st.output_data_[a]) \/ arrows # output_data_nodes_[a])
        /\ IsBeforeSwitchActor(a)
       THEN [st |-> SetFailed(st, seq), log |-> << Event("failed", "none", 0) >>]
       ELSE
         Let(SendOutputData(st, a, seq, 1, << >>), LAMBDA d :
         Let(SendOutputControl(d.st, a, seq, 1, d.log), LAMBDA c :
         Let(SendRecorderInfo(c), LAMBDA r :
           IF arrows = 0 /\ Len(output_control_arrows_(a)) = 0 /\ IsBeforeSwitchActor(a)
             THEN [st |-> SetSuccess(r.st, seq),
                   log |-> Append(r.log, Event("success", "none", 0))]
             ELSE r)))

(***************************************************************************)
(* Run: the actor reads its pending input data of the run, erases the      *)
(* run's pending state and sends its output.                               *)
(***************************************************************************)
InputValues(st, a, seq) ==
  IF seq \in DOMAIN st.input_op_datas_[a]
    THEN {Deref(st, st.input_op_datas_[a][seq][j]).data_ :
            j \in 1..Len(st.input_op_datas_[a][seq])}
    ELSE {}

Run(st, a, seq) ==
  Let(EraseInput(st, a, seq), LAMBDA e :
  Let(SendOutput(e.st, a, seq), LAMBDA s :
    [st |-> s.st, vals |-> InputValues(st, a, seq), log |-> s.log,
     erase_error |-> e.error]))

(***************************************************************************)
(* RunOpData, RunOpControl, RunBatchOpData.  Each returns the state after  *)
(* the call and the steps it took: one step per readiness evaluation.      *)
(***************************************************************************)
PendingLen(map, seq) == IF seq \in DOMAIN map THEN Len(map[seq]) ELSE 0

Step(st, a, seq, chk, vals, log) ==
  [dnum |-> PendingLen(st.input_op_datas_[a], seq),
   cnum |-> PendingLen(st.input_op_controls_[a], seq),
   pending |-> IF seq \in DOMAIN st.input_op_datas_[a]
                 THEN st.input_op_datas_[a][seq] ELSE << >>,
   is_run |-> chk.ret, error |-> chk.error, vals |-> vals, log |-> log]

\* CheckAndRun erasing the run's pending entries when the check reports a
\* count above the requirement.
CheckAndRun_EraseOnError(appended, a, seq) ==
  Let(appended, LAMBDA st :
  Let(CheckRunningCondition(st, a, seq), LAMBDA chk :
    IF chk.ret
      THEN Let(Run(st, a, seq), LAMBDA run :
             [st |-> run.st, steps |-> << Step(st, a, seq, chk, run.vals, run.log) >>])
      ELSE [st |-> IF chk.error # "none" THEN EraseInput(st, a, seq).st ELSE st,
            steps |-> << Step(st, a, seq, chk, {}, << >>) >>]))

\* What follows the append in RunOpData and RunOpControl.
CheckAndRun(appended, a, seq) ==
  Let(appended, LAMBDA st :
  Let(CheckRunningCondition(st, a, seq), LAMBDA chk :
    IF chk.ret
      THEN Let(Run(st, a, seq), LAMBDA run :
             [st |-> run.st, steps |-> << Step(st, a, seq, chk, run.vals, run.log) >>])
      ELSE [st |-> st, steps |-> << Step(st, a, seq, chk, {}, << >>) >>]))

RunOpData(st, a, input_data, seq) ==
  IF Deref(st, input_data).data_ = NullData
    THEN [st |-> st, steps |-> << >>]  \* MS_EXCEPTION_IF_NULL
    ELSE CheckAndRun(
           [st EXCEPT !.input_op_datas_[a] = MapEmplaceBack(@, seq, input_data)], a, seq)

RunOpControl(st, a, input_control, seq) ==
  CheckAndRun(
    [st EXCEPT !.input_op_controls_[a] = MapEmplaceBack(@, seq, input_control)], a, seq)

RECURSIVE RunBatchOpDataFrom(_, _, _, _, _, _)
RunBatchOpDataFrom(st, a, batch_input_data, seq, j, steps) ==
  IF j > Len(batch_input_data)
    THEN [st |-> st, steps |-> steps]
    ELSE Let(RunOpData(st, a, batch_input_data[j], seq), LAMBDA r :
           RunBatchOpDataFrom(r.st, a, batch_input_data, seq, j + 1, steps \o r.steps))

RunBatchOpData(st, a, batch_input_data, seq) ==
  RunBatchOpDataFrom(st, a, batch_input_data, seq, 1, << >>)

\* The vector a RunBatchOpData message points to: the sender's batch list
\* for this destination.
BatchOf(from, to) ==
  [j \in 1..Len(batch_output_data_[from][to]) |->
     CachePtr(from, batch_output_data_[from][to][j])]


(***************************************************************************)
(* Construction.                                                           *)
(***************************************************************************)
\* The declared input data counts: X waits for one or two messages, W for
\* the whole batch or for less, Y for its data arrow or for controls only.
DeclaredNum(kx, ky, kw) ==
  [a \in Actors |-> CASE a = "X" -> kx [] a = "Y" -> ky [] a = "W" -> kw [] OTHER -> 1]

InputDatasNum ==
  {DeclaredNum(1, 1, 2), DeclaredNum(2, 1, 2), DeclaredNum(1, 1, 1), DeclaredNum(1, 0, 2)}

InputControlsNum == [a \in Actors |-> IF a = "Y" THEN 1 ELSE 0]

\* output_data_nodes_ as the scheduler fills it: one node per data arrow.
OutputDataNodes == [a \in Actors |-> Len(output_data_arrows_(a))]

\* Actors that may be out of step with their output data arrows.
FaultActors == {"Z", "W"}

InitCommon ==
  /\ input_datas_num_ \in InputDatasNum
  /\ input_controls_num_ = InputControlsNum
  /\ \A a \in Actors : ~InitOutputData(a).exception
  /\ to_stack_data_ = [a \in Actors |-> << >>]
  /\ input_op_datas_ = [a \in Actors |-> EmptyMap]
  /\ input_op_controls_ = [a \in Actors |-> EmptyMap]
  /\ mailbox = [a \in Actors |-> << >>]
  /\ context = [seq \in Runs |-> << >>]
  /\ injected = [seq \in Runs |-> 0]
  /\ delivered = [a \in Actors |-> [seq \in Runs |-> 0]]
  /\ runCount = [a \in Actors |-> [seq \in Runs |-> 0]]
  /\ sent = [a \in Actors |-> [seq \in Runs |->
               [i \in 1..Len(output_data_arrows_(a)) |-> 0]]]
  /\ last = [method |-> "none", actor |-> "none", seq |-> 0, batch |-> << >>,
             steps |-> << >>]
  /\ solo = [a \in Actors |-> [seq \in Runs |->
               [input_op_datas_ |-> EmptyMap, input_op_controls_ |-> EmptyMap,
                runs |-> 0]]]
  /\ NoCell
  /\ NoCall

Init ==
  /\ InitCommon
  /\ output_data_nodes_ = OutputDataNodes
  /\ output_data_ = [a \in Actors |-> InitOutputData(a).output_data_]
  /\ batch_output_data_ = [a \in Actors |-> InitOutputData(a).batch_output_data_]

\* At most one actor is out of step with its arrows: its output_data_nodes_
\* holds one node too many, or InitOutputData was not called on it and it has
\* no cached envelope.
InitFault ==
  /\ InitCommon
  /\ \E bad \in SUBSET FaultActors, fault \in {"nodes", "envelopes"} :
       /\ Cardinality(bad) <= 1
       /\ output_data_nodes_ =
            [a \in Actors |-> OutputDataNodes[a] +
                                (IF a \in bad /\ fault = "nodes" THEN 1 ELSE 0)]
       /\ output_data_ =
            [a \in Actors |-> IF a \in bad /\ fault = "envelopes"
                                THEN << >> ELSE InitOutputData(a).output_data_]
       /\ batch_output_data_ =
            [a \in Actors |-> IF a \in bad /\ fault = "envelopes"
                                THEN [d \in Actors |-> << >>]
                                ELSE InitOutputData(a).batch_output_data_]

(***************************************************************************)
(* Actions.                                                                *)
(***************************************************************************)
\* The sum of a function's values.
RECURSIVE Sum(_)
Sum(f) ==
  IF DOMAIN f = {} THEN 0
  ELSE LET x == CHOOSE x \in DOMAIN f : TRUE
       IN f[x] + Sum([y \in (DOMAIN f) \ {x} |-> f[y]])

\* How many elements of a sequence satisfy a test.
Count(s, Test(_)) == Cardinality({j \in 1..Len(s) : Test(s[j])})

\* The messages the handler appended to the mailbox of d.
NewMessages(before, after, d) ==
  SubSeq(after.mailbox[d], Len(before.mailbox[d]) + 1, Len(after.mailbox[d]))

\* Is m a RunOpData send of the cached envelope of arrow i of a, to the
\* arrow's destination d, the envelope carrying the arrow's input index.
IsArrowSend(after, m, a, i, d) ==
  /\ m.method = "RunOpData"
  /\ m.data = CachePtr(a, i)
  /\ output_data_arrows_(a)[i].to_op_id_ = d
  /\ Deref(after, m.data).index_ = output_data_arrows_(a)[i].to_input_index_

\* The sends of arrow i of a, tagged with run q, among the messages the
\* handler appended to the mailbox of the arrow's destination.
ArrowSends(before, after, a, i, q) ==
  LET d == output_data_arrows_(a)[i].to_op_id_
      new == NewMessages(before, after, d)
  IN Cardinality({j \in 1..Len(new) : new[j].seq = q /\ IsArrowSend(after, new[j], a, i, d)})

\* The handler a message names, applied to the actor that received it.
Handle(st, a, m) ==
  CASE m.method = "RunOpData"      -> RunOpData(st, a, m.data, m.seq)
    [] m.method = "RunOpControl"   -> RunOpControl(st, a, m.from, m.seq)
    [] m.method = "RunBatchOpData" -> RunBatchOpData(st, a, BatchOf(m.from, a), m.seq)

\* The state a handler starts from: the message taken off the mailbox.
Taken(a) == [State EXCEPT !.mailbox[a] = Tail(@)]

\* The same state, the actor's pending maps replaced by those of the
\* reference execution in which only the run's own messages arrived.
SoloState(st, a, seq) ==
  [st EXCEPT !.input_op_datas_[a] = solo[a][seq].input_op_datas_,
             !.input_op_controls_[a] = solo[a][seq].input_op_controls_]

Runs_(steps) == Count(steps, LAMBDA s : s.is_run)

\* Actor a handles the message at the head of its mailbox: the program
\* state after the handler, and the history of what it did.
Commit(a) ==
  LET m == Head(mailbox[a])
      seq == m.seq
      before == Taken(a)
  IN \E r \in {Handle(before, a, m)}, ref \in {Handle(SoloState(before, a, seq), a, m)} :
     /\ input_op_datas_' = r.st.input_op_datas_
     /\ input_op_controls_' = r.st.input_op_controls_
     /\ output_data_' = r.st.output_data_
     /\ to_stack_data_' = r.st.to_stack_data_
     /\ mailbox' = r.st.mailbox
     /\ context' = r.st.context
     /\ delivered' = [delivered EXCEPT ![a][seq] =
                        @ + (IF m.method = "RunOpControl" THEN 0 ELSE Len(r.steps))]
     /\ runCount' = [runCount EXCEPT ![a][seq] = @ + Runs_(r.steps)]
     /\ sent' = [sent EXCEPT ![a] =
                   [q \in Runs |-> [i \in 1..Len(output_data_arrows_(a)) |->
                      sent[a][q][i] + ArrowSends(before, r.st, a, i, q)]]]
     /\ last' = [method |-> m.method, actor |-> a, seq |-> seq,
                 batch |-> IF m.method = "RunBatchOpData" THEN BatchOf(m.from, a)
                                                          ELSE << >>,
                 steps |-> r.steps]
     /\ solo' = [solo EXCEPT ![a][seq] =
                   [input_op_datas_ |-> ref.st.input_op_datas_[a],
                    input_op_controls_ |-> ref.st.input_op_controls_[a],
                    runs |-> @.runs + Runs_(ref.steps)]]
     /\ UNCHANGED << input_datas_num_, input_controls_num_, output_data_nodes_,
                     batch_output_data_, injected, tapeVars, call >>

\* The caller dispatches a data message for a run to the entry actor.
\* Sequential numbers are handed out in increasing order.
Dispatch(seq) ==
  /\ Sum(injected) < MaxInject
  /\ \A q \in Runs : q < seq => injected[q] > 0
  /\ injected' = [injected EXCEPT ![seq] = @ + 1]
  /\ mailbox' = [mailbox EXCEPT ![EntryActor] =
                   Append(@, Message("RunOpData", CallerPtr(seq), "caller", seq))]
  /\ UNCHANGED << input_datas_num_, input_controls_num_, output_data_nodes_,
                  output_data_, batch_output_data_, to_stack_data_, input_op_datas_,
                  input_op_controls_, context, delivered, runCount, sent, last, solo,
                  tapeVars, call >>

HandleRunOpData(a) ==
  /\ mailbox[a] # << >>
  /\ Head(mailbox[a]).method = "RunOpData"
  /\ Commit(a)

HandleRunOpControl(a) ==
  /\ mailbox[a] # << >>
  /\ Head(mailbox[a]).method = "RunOpControl"
  /\ Commit(a)

HandleRunBatchOpData(a) ==
  /\ mailbox[a] # << >>
  /\ Head(mailbox[a]).method = "RunBatchOpData"
  /\ Commit(a)

Next ==
  \/ \E seq \in Runs : Dispatch(seq)
  \/ \E a \in Actors : HandleRunOpData(a)
  \/ \E a \in Actors : HandleRunOpControl(a)
  \/ \E a \in Actors : HandleRunBatchOpData(a)

\* The graph as the scheduler builds it.
Spec == Init /\ [][Next]_vars

\* The graph with output_data_nodes_ possibly out of step with the arrows.
SpecFault == InitFault /\ [][Next]_vars


(***************************************************************************)
(* Properties.                                                             *)
(***************************************************************************)
Range(s) == {s[j] : j \in 1..Len(s)}

\* The entries of a map for one key.
MapOf(m, key) == [seq \in (DOMAIN m) \cap {key} |-> m[seq]]

Failed(seq) == "failed" \in Range(context[seq])

\* C1: an actor that declares k > 0 input data and no input control has not
\* run for a run while fewer than k RunOpData calls of the run reached it,
\* and the call that is the k-th invokes Run exactly once.
C1_ExactArityFiring ==
  \A a \in Actors, seq \in Runs :
    (input_datas_num_[a] > 0 /\ input_controls_num_[a] = 0) =>
      /\ delivered[a][seq] < input_datas_num_[a] => runCount[a][seq] = 0
      /\ delivered[a][seq] = input_datas_num_[a] => runCount[a][seq] = 1
      /\ ( /\ last.actor = a /\ last.seq = seq /\ last.method = "RunOpData"
           /\ delivered[a][seq] = input_datas_num_[a] )
         => Runs_(last.steps) = 1

\* X waits for two messages; the second of run 1 has just made it run once.
C1_Witness ==
  /\ input_datas_num_["X"] = 2
  /\ last.actor = "X" /\ last.seq = 1
  /\ delivered["X"][1] = 2
  /\ runCount["X"][1] = 1

C3_BatchAtomic ==
  last.method = "RunBatchOpData" =>
    \A j \in 1..Len(last.steps) :
      last.steps[j].is_run => Range(last.batch) \subseteq Range(last.steps[j].pending)

\* C4: every value an actor reads from its pending list when it fires for a
\* run is the value computed for that run.
C4_ReadsOwnRun ==
  \A j \in 1..Len(last.steps) :
    last.steps[j].is_run => last.steps[j].vals \subseteq {last.seq}

\* C5: for every Init-flag output data arrow of an actor and every run, the
\* RunOpData messages sent to the arrow's destination with the arrow's cached
\* envelope (carrying the arrow's input index) and tagged with the run are
\* as many as the actor's firings of the run: none before it fired, one for
\* each firing.
C5_InitArrowDelivery ==
  \A a \in Actors, seq \in Runs :
    \A i \in 1..Len(output_data_[a]) :
      output_data_[a][i].second = "kOutputDataFalgInit" =>
        sent[a][seq][i] = runCount[a][seq]

\* X waits for two messages and has Init arrows to Y and Z: it fired once
\* for run 1 and one message went to each.
C5_Witness ==
  /\ input_datas_num_["X"] = 2
  /\ runCount["X"][1] = 1
  /\ sent["X"][1] = << 1, 1 >>
  /\ \E j \in 1..Len(mailbox["Y"]) :
       mailbox["Y"][j] = Message("RunOpData", CachePtr("X", 1), "X", 1)

\* The order of the steps of SendOutput.
Rank(kind) ==
  CASE kind \in {"update", "data", "batch", "stack"} -> 1
    [] kind = "control" -> 2
    [] kind = "recorder" -> 3
    [] kind = "success" -> 4
    [] OTHER -> 0

\* C6: in every SendOutput call, each data send precedes each control send,
\* which precedes the one recorder step; success is signalled only as the
\* last step, and only by an actor without output arrows whose type is
\* before kSwitchActor.
C6_SendOrder ==
  \A j \in 1..Len(last.steps) :
    LET log == last.steps[j].log
    IN /\ \A x, y \in 1..Len(log) : x < y => Rank(log[x].kind) <= Rank(log[y].kind)
       /\ Cardinality({x \in 1..Len(log) : log[x].kind = "recorder"}) <= 1
       /\ \A x \in 1..Len(log) :
            log[x].kind = "success" =>
              /\ x = Len(log)
              /\ Len(output_data_arrows_(last.actor)) = 0
              /\ Len(output_control_arrows_(last.actor)) = 0
              /\ IsBeforeSwitchActor(last.actor)

\* Z has just sent data, then a control, then the recorder info.
C6_Witness ==
  /\ last.actor = "Z"
  /\ \E j \in 1..Len(last.steps) :
       LET log == last.steps[j].log
       IN /\ last.steps[j].is_run
          /\ \E x, y, z \in 1..Len(log) :
               /\ log[x].kind \in {"data", "batch", "stack"}
               /\ log[y].kind = "control"
               /\ log[z].kind = "recorder"

\* C7: the context of a run is never set a second time.
C7_OneTerminalSignal == \A seq \in Runs : Len(context[seq]) <= 1

\* C8: every readiness evaluation returns true exactly when each declared
\* count is zero or equals the number of pending entries of the run, and an
\* evaluation that returns false leaves the pending entries as they were.
C8_ReadinessPredicate ==
  /\ \A j \in 1..Len(last.steps) :
       LET s == last.steps[j]
           a == last.actor
       IN s.is_run <=>
            /\ (input_datas_num_[a] = 0 \/ s.dnum = input_datas_num_[a])
            /\ (input_controls_num_[a] = 0 \/ s.cnum = input_controls_num_[a])
  /\ (last.steps # << >> /\ ~last.steps[Len(last.steps)].is_run) =>
       /\ PendingLen(input_op_datas_[last.actor], last.seq)
            = last.steps[Len(last.steps)].dnum
       /\ PendingLen(input_op_controls_[last.actor], last.seq)
            = last.steps[Len(last.steps)].cnum

\* Y, which needs one data and one control, has just found both and run.
C8_Witness ==
  /\ last.actor = "Y"
  /\ input_datas_num_["Y"] = 1 /\ input_controls_num_["Y"] = 1
  /\ last.steps # << >>
  /\ last.steps[1].is_run
  /\ last.steps[1].dnum = 1 /\ last.steps[1].cnum = 1

\* C9, as claimed: the RunOpData call that is the (k+1)-th of a run reports
\* an error and does not invoke Run.
C9_Original ==
  ( /\ last.method = "RunOpData"
    /\ input_datas_num_[last.actor] > 0
    /\ delivered[last.actor][last.seq] = input_datas_num_[last.actor] + 1 )
  => \A j \in 1..Len(last.steps) :
       last.steps[j].error = "data" /\ ~last.steps[j].is_run

\* C9, amended: a data message that makes the pending count of the run
\* exceed the declared k > 0 reports an error and does not invoke Run.
C9_OverflowReported ==
  \A j \in 1..Len(last.steps) :
    ( /\ last.method # "RunOpControl"
      /\ input_datas_num_[last.actor] > 0
      /\ last.steps[j].dnum > input_datas_num_[last.actor] )
    => last.steps[j].error = "data" /\ ~last.steps[j].is_run

\* Y, waiting for its control, has just received a second data message.
C9_Witness ==
  /\ last.actor = "Y" /\ last.method = "RunOpData"
  /\ input_datas_num_["Y"] = 1
  /\ last.steps # << >>
  /\ last.steps[1].dnum = 2
  /\ last.steps[1].error = "data"
  /\ runCount["Y"][last.seq] = 0

\* C10: when an evaluation finds more pending entries than declared, the
\* run's context holds a failure.
C10_OverflowFailsRun ==
  \A j \in 1..Len(last.steps) :
    last.steps[j].error # "none" => Failed(last.seq)


\* C11: once the context of a run holds a failure, no message handled for that
\* run invokes Run any more, at any actor.
C11_NoRunAfterFailure ==
  [][\A a \in Actors, seq \in Runs :
       Failed(seq) => runCount'[a][seq] = runCount[a][seq]]_vars

(***************************************************************************)
(* EraseInput applied on its own to drawn pending maps.                    *)
(***************************************************************************)
\* The longest pending list drawn.
MaxPending == 2

\* The actor EraseInput is applied to.
EraseActor == "Y"

\* Pending maps: any set of runs has an entry; operator[] followed by
\* emplace_back never leaves an entry empty.
PendingMaps(x) ==
  UNION {[D -> {[j \in 1..n |-> x] : n \in 1..MaxPending}] : D \in SUBSET Runs}

InitEraseInput ==
  /\ input_datas_num_ \in {DeclaredNum(1, k, 2) : k \in 0..MaxPending}
  /\ input_controls_num_ \in
       {[a \in Actors |-> IF a = EraseActor THEN c ELSE 0] : c \in 0..MaxPending}
  /\ output_data_nodes_ = OutputDataNodes
  /\ output_data_ = [a \in Actors |-> InitOutputData(a).output_data_]
  /\ batch_output_data_ = [a \in Actors |-> InitOutputData(a).batch_output_data_]
  /\ to_stack_data_ = [a \in Actors |-> << >>]
  /\ input_op_datas_ \in
       {[a \in Actors |-> IF a = EraseActor THEN m ELSE EmptyMap] :
          m \in PendingMaps(CachePtr("X", 1))}
  /\ input_op_controls_ \in
       {[a \in Actors |-> IF a = EraseActor THEN m ELSE EmptyMap] :
          m \in PendingMaps("Z")}
  /\ mailbox = [a \in Actors |-> << >>]
  /\ context = [seq \in Runs |-> << >>]
  /\ injected = [seq \in Runs |-> 0]
  /\ delivered = [a \in Actors |-> [seq \in Runs |-> 0]]
  /\ runCount = [a \in Actors |-> [seq \in Runs |-> 0]]
  /\ sent = [a \in Actors |-> [seq \in Runs |->
               [i \in 1..Len(output_data_arrows_(a)) |-> 0]]]
  /\ last = [method |-> "none", actor |-> "none", seq |-> 0, batch |-> << >>,
             steps |-> << >>]
  /\ solo = [a \in Actors |-> [seq \in Runs |->
               [input_op_datas_ |-> EmptyMap, input_op_controls_ |-> EmptyMap,
                runs |-> 0]]]
  /\ NoCell
  /\ NoCall

\* EraseInput(context) for run seq; the call remembers the maps it found and
\* whether the actor's running condition held for the run (the actor fired).
ApplyEraseInput(seq) ==
  /\ \E r \in {EraseInput(State, EraseActor, seq)} :
       /\ input_op_datas_' = r.st.input_op_datas_
       /\ input_op_controls_' = r.st.input_op_controls_
       /\ call' = [op |-> "EraseInput", seq |-> seq,
                   fired |-> CheckRunningCondition(State, EraseActor, seq).ret,
                   datas |-> input_op_datas_[EraseActor],
                   controls |-> input_op_controls_[EraseActor],
                   error |-> r.error]
  /\ UNCHANGED << input_datas_num_, input_controls_num_, output_data_nodes_,
                  output_data_, batch_output_data_, to_stack_data_, mailbox, context,
                  injected, delivered, runCount, sent, last, solo, tapeVars >>

NextEraseInput == \E seq \in Runs : ApplyEraseInput(seq)

SpecEraseInput == InitEraseInput /\ [][NextEraseInput]_vars

\* Entries of the runs other than the call's are as the call found them.
OtherRunsUnchanged ==
  \A q \in Runs \ {call.seq} :
    /\ MapOf(input_op_datas_[EraseActor], q) = MapOf(call.datas, q)
    /\ MapOf(input_op_controls_[EraseActor], q) = MapOf(call.controls, q)

Parameters == {"p0", "p1", "w0", "w1"}
CNodes == {"n1", "n2", "n3", "n4", "n5", "n6"}
Primitives == {"F", "G", "H", "StopGradient", "UpdateState"}

\* cnode->inputs()
inputs(cnode) ==
  CASE cnode = "n1" -> << "F", "p0" >>
    [] cnode = "n2" -> << "G", "n1", "p0" >>
    [] cnode = "n3" -> << "StopGradient", "n2" >>
    [] cnode = "n4" -> << "func_graph", "n1", "p1", "w1", "n1" >>
    [] cnode = "n5" -> << "UpdateState", "w0", "n1", "w0" >>
    [] cnode = "n6" -> << "H", "n1" >>

\* cnode->input(i), i counted from 0
input(cnode, i) == inputs(cnode)[i + 1]

\* node->isa<CNode>()
IsCNode(node) == node \in CNodes

\* GetCNodePrimitive / GetCNodeFuncGraph: nullptr when input 0 is of the other kind.
GetCNodePrimitive(cnode) ==
  IF input(cnode, 0) \in Primitives THEN input(cnode, 0) ELSE "nullptr"

GetCNodeFuncGraph(cnode) ==
  IF input(cnode, 0) = "func_graph" THEN "primal_fg" ELSE "nullptr"

IsPrimitiveCNode(cnode, prim) == input(cnode, 0) = prim

\* g_k_prims.GetBprop(prim): the registered backward rule of a primitive,
\* nullptr for a primitive that has none (H).
GetBprop(prim) == IF prim = "H" THEN "nullptr" ELSE << "bprop", prim >>

\* The value the forward pass computed for a node.
ValueOf(node) == << "value", node >>

\* op_args and out as the caller passes them for a cnode.
OpArgs(cnode) == [i \in 1..(Len(inputs(cnode)) - 1) |-> ValueOf(input(cnode, i))]

\* Nodes of the tape graph (the expressions gradients are made of).
NullNode == [kind |-> "nullptr"]
Parameter(k) == [kind |-> "Parameter", index |-> k]
ZerosLike(out) == [kind |-> "zeros_like", out |-> out]
HyperAdd(lhs, rhs) == [kind |-> "hyper_add", lhs |-> lhs, rhs |-> rhs]
BpropApp(bprop_fg, cnode, dout) ==
  [kind |-> "bprop_app", bprop_fg |-> bprop_fg, cnode |-> cnode, dout |-> dout]
TupleGetItem(bprop_app, index) ==
  [kind |-> "tuple_getitem", bprop_app |-> bprop_app, index |-> index]

\* PynativeAdjoint(tape, op_args, out, bprop_fg), with dout_ unset and no users.
PynativeAdjoint(op_args, out, bprop_fg) ==
  [dout_ |-> NullNode, users_ |-> << >>, op_args_ |-> op_args, out_ |-> out,
   bprop_fg_ |-> bprop_fg]

\* RealDout returning dout_ as it is, unset or not.
RealDout_Unset(adjoint) == adjoint.dout_

\* PynativeAdjoint::RealDout: zeros_like(out) while dout_ is unset.
RealDout(adjoint) ==
  IF adjoint.dout_ # NullNode THEN adjoint.dout_ ELSE ZerosLike(adjoint.out_)

\* AccumulateDout replacing the gradient instead of adding to it.
AccumulateDout_Overwrite(adjoint, dout_factor) ==
  [adjoint EXCEPT !.dout_ = dout_factor]

\* AccumulateDout keeping the first factor and dropping the later ones.
AccumulateDout_KeepFirst(adjoint, dout_factor) ==
  IF adjoint.dout_ # NullNode THEN adjoint
  ELSE [adjoint EXCEPT !.dout_ = dout_factor]

\* PynativeAdjoint::AccumulateDout
AccumulateDout(adjoint, dout_factor) ==
  IF adjoint.dout_ # NullNode
    THEN [adjoint EXCEPT !.dout_ = HyperAdd(adjoint.dout_, dout_factor)]
    ELSE [adjoint EXCEPT !.dout_ = dout_factor]

\* OrderedMap::find: the position of the node's pair, 0 for end().
Find(map, node) ==
  IF \E j \in 1..Len(map) : map[j].first = node
    THEN CHOOSE j \in 1..Len(map) : map[j].first = node
    ELSE 0

\* OrderedMap::insert: appended in insertion order; a present key is kept.
Insert(map, node, adjoint) ==
  IF Find(map, node) # 0 THEN map
  ELSE Append(map, [first |-> node, second |-> adjoint])

\* The fields of the cell that the recording and finishing calls change, as
\* one record, with the exception a call ended with ("none": it returned).
Cell ==
  [tape_ |-> tape_, anfnode_to_adjoin_ |-> anfnode_to_adjoin_,
   last_node_ |-> last_node_,
   need_propagate_stop_gradient_ |-> need_propagate_stop_gradient_,
   stop_gradient_ |-> stop_gradient_, events |-> << >>, value |-> "nullptr",
   exception |-> "none"]

Throw(c, what) == [c EXCEPT !.exception = what]

\* PushUser that adds no user link.
PushUser_Skip(map, j, cnode) == map

\* users().push_back(cnode) on the adjoint at a position of the map.
PushUser(map, j, cnode) == [map EXCEPT ![j].second.users_ = Append(@, cnode)]

\* BuildAdjoint, the loop over the cnode's arguments (lines 287-301).
RECURSIVE BuildAdjointInputs(_, _, _, _)
BuildAdjointInputs(c, cnode, op_args, i) ==
  IF i >= Len(inputs(cnode)) THEN c
  ELSE
    LET inp_i == input(cnode, i)
        found == Find(c.anfnode_to_adjoin_, inp_i)
        \* the leaf adjoint with the user link it is given right after insertion
        leaf == [PynativeAdjoint(<< >>, op_args[i], "nullptr")
                   EXCEPT !.users_ = << cnode >>]
    IN IF found = 0
         THEN IF IsCNode(inp_i)
                THEN Throw(c, "Cannot find adjoint for anfnode")
                ELSE BuildAdjointInputs(
                       [c EXCEPT !.anfnode_to_adjoin_ = Insert(@, inp_i, leaf)],
                       cnode, op_args, i + 1)
         ELSE BuildAdjointInputs(
                [c EXCEPT !.anfnode_to_adjoin_ = PushUser(@, found, cnode)],
                cnode, op_args, i + 1)

\* BuildAdjoint after its uniqueness check (lines 282-303).
BuildAdjointNew(c, cnode, op_args, out, bprop_fg) ==
  BuildAdjointInputs(
    [c EXCEPT !.last_node_ = cnode,
              !.anfnode_to_adjoin_ =
                 Insert(@, cnode, PynativeAdjoint(op_args, out, bprop_fg))],
    cnode, op_args, 1)

\* BuildAdjoint without the uniqueness check.
BuildAdjoint_NoUniqueCheck(c, cnode, op_args, out, bprop_fg) ==
  BuildAdjointNew(c, cnode, op_args, out, bprop_fg)

\* KPynativeCellImpl::BuildAdjoint
BuildAdjoint(c, cnode, op_args, out, bprop_fg) ==
  IF Find(c.anfnode_to_adjoin_, cnode) # 0
    THEN Throw(c, "CNode should be unique")
    ELSE BuildAdjointNew(c, cnode, op_args, out, bprop_fg)

\* KPynativeOp without MS_EXCEPTION_IF_NULL(bprop_fg).
KPynativeOp_NoNullCheck(c, cnode, op_args, out) ==
  LET prim == GetCNodePrimitive(cnode)
      c1 == IF prim \in {"StopGradient", "UpdateState"}
              THEN [c EXCEPT !.need_propagate_stop_gradient_ = TRUE]
              ELSE c
  IN IF prim = "nullptr" THEN Throw(c, "Should be primitive")
     ELSE BuildAdjoint(c1, cnode, op_args, out, GetBprop(prim))

\* KPynativeCellImpl::KPynativeOp
KPynativeOp(c, cnode, op_args, out) ==
  LET prim == GetCNodePrimitive(cnode)
      c1 == IF prim \in {"StopGradient", "UpdateState"}
              THEN [c EXCEPT !.need_propagate_stop_gradient_ = TRUE]
              ELSE c
      bprop_fg == GetBprop(prim)
  IN IF prim = "nullptr" THEN Throw(c, "Should be primitive")
     ELSE IF bprop_fg = "nullptr" THEN Throw(c1, "bprop_fg is null")
     ELSE BuildAdjoint(c1, cnode, op_args, out, bprop_fg)

\* KPynativeCellImpl::KPynativeWithBProp
KPynativeWithBProp(c, cnode, op_args, out, bprop_fg) ==
  IF GetCNodeFuncGraph(cnode) = "nullptr" THEN Throw(c, "Should be func graph")
  ELSE IF bprop_fg = "nullptr" THEN Throw(c, "bprop_fg is null")
  ELSE BuildAdjoint(c, cnode, op_args, out, bprop_fg)

\* What Finish does, in order, for the properties that speak of its steps.
TapeEvent(kind, node, expr) == [kind |-> kind, node |-> node, expr |-> expr]

Log(c, kind, node, expr) == [c EXCEPT !.events = Append(@, TapeEvent(kind, node, expr))]

\* cnode->stop_gradient()
StopGradientOf(c, node) == IsCNode(node) /\ c.stop_gradient_[node]

\* AllReferencesStopped without the users.empty() check.
AllReferencesStopped_NoEmptyCheck(c, j) ==
  LET users == c.anfnode_to_adjoin_[j].second.users_
  IN \A u \in 1..Len(users) : StopGradientOf(c, users[u])

\* KPynativeCellImpl::AllReferencesStopped (the adjoint is at position j)
AllReferencesStopped(c, j) ==
  LET users == c.anfnode_to_adjoin_[j].second.users_
  IN IF users = << >> THEN FALSE
     ELSE \A u \in 1..Len(users) : StopGradientOf(c, users[u])

\* What the propagation decides for a cnode that is not stopped yet.
ShouldStop(c, j) ==
  LET cnode == c.anfnode_to_adjoin_[j].first
  IN \/ IsPrimitiveCNode(cnode, "StopGradient")
     \/ IsPrimitiveCNode(cnode, "UpdateState")
     \/ AllReferencesStopped(c, j)

\* PropagateStopGradient's loop, from rbegin() (position j) to rend().
RECURSIVE PropagateStopGradientFrom(_, _)
PropagateStopGradientFrom(c, j) ==
  IF j = 0 THEN c
  ELSE LET node == c.anfnode_to_adjoin_[j].first
       IN IF IsCNode(node) /\ ~c.stop_gradient_[node] /\ ShouldStop(c, j)
            THEN PropagateStopGradientFrom(
                   Log([c EXCEPT !.stop_gradient_[node] = TRUE], "stop", node, NullNode),
                   j - 1)
            ELSE PropagateStopGradientFrom(c, j - 1)

\* PropagateStopGradient running its loop whatever the tape-wide flag is.
PropagateStopGradient_Always(c) ==
  PropagateStopGradientFrom(Log(c, "propagate", "nullptr", NullNode),
                            Len(c.anfnode_to_adjoin_))

\* KPynativeCellImpl::PropagateStopGradient
PropagateStopGradient(c) ==
  IF c.need_propagate_stop_gradient_
    THEN PropagateStopGradientFrom(Log(c, "propagate", "nullptr", NullNode),
                                   Len(c.anfnode_to_adjoin_))
    ELSE c

\* tape_->add_parameter()
AddParameter(c, origin) == [c EXCEPT !.tape_.parameters = Append(@, origin)]

\* AccumulateDout on the adjoint at position j of the map.
Accumulate(c, j, dout_factor) ==
  Log([c EXCEPT !.anfnode_to_adjoin_[j].second = AccumulateDout(@, dout_factor)],
      "accumulate", c.anfnode_to_adjoin_[j].first, dout_factor)

\* PrimBpropOptimizer::OptimizeBPropFuncGraph: the backward graph specialised
\* to the recorded values; the same backward function.
OptimizeBPropFuncGraph(bprop_fg, cnode, op_args, out) == bprop_fg

\* BackPropagate(cnode_primal, bprop_app): one contribution per argument.
RECURSIVE BackPropagateInputs(_, _, _, _)
BackPropagateInputs(c, cnode_primal, bprop_app, i) ==
  IF i >= Len(inputs(cnode_primal)) THEN c
  ELSE LET din == TupleGetItem(bprop_app, i - 1)
           found == Find(c.anfnode_to_adjoin_, input(cnode_primal, i))
       IN IF found = 0
            THEN Throw(c, "BackPropagate adjoint does not exist input")
            ELSE BackPropagateInputs(Accumulate(c, found, din),
                                     cnode_primal, bprop_app, i + 1)

\* The backward call BackPropagate() builds for the cnode at position j.
BuildBpropApp(c, j) ==
  LET cnode == c.anfnode_to_adjoin_[j].first
      adjoint == c.anfnode_to_adjoin_[j].second
      bprop_fg == IF adjoint.bprop_fg_ = "nullptr"
                    THEN GetBprop(GetCNodePrimitive(cnode))
                    ELSE adjoint.bprop_fg_
  IN BpropApp(OptimizeBPropFuncGraph(bprop_fg, cnode, adjoint.op_args_, adjoint.out_),
              cnode, RealDout(adjoint))

\* Bypass that never skips a cnode.
Bypass_Never(c, cnode) == FALSE

\* BackPropagate(): a cnode with the stop_gradient flag is bypassed (lines 333-336).
Bypass(c, cnode) == c.stop_gradient_[cnode]

\* BackPropagate()'s loop, from rbegin() (position j) to rend().
RECURSIVE BackPropagateFrom(_, _)
BackPropagateFrom(c, j) ==
  IF j = 0 \/ c.exception # "none" THEN c
  ELSE LET cnode == c.anfnode_to_adjoin_[j].first
       IN IF ~IsCNode(cnode) THEN BackPropagateFrom(c, j - 1)
          ELSE IF Bypass(c, cnode) THEN BackPropagateFrom(c, j - 1)
          ELSE IF c.anfnode_to_adjoin_[j].second.bprop_fg_ = "nullptr"
                  /\ GetCNodePrimitive(cnode) = "nullptr"
            THEN Throw(c, "should be primitive")
          ELSE IF c.anfnode_to_adjoin_[j].second.bprop_fg_ = "nullptr"
                  /\ GetBprop(GetCNodePrimitive(cnode)) = "nullptr"
            THEN Throw(c, "bprop_fg is null")
          ELSE BackPropagateFrom(
                 Let(BuildBpropApp(c, j),
                     LAMBDA bprop_app :
                       BackPropagateInputs(Log(c, "bprop_app", cnode, bprop_app),
                                           cnode, bprop_app, 1)),
                 j - 1)

\* KPynativeCellImpl::BackPropagate()
BackPropagate(c) == BackPropagateFrom(c, Len(c.anfnode_to_adjoin_))

\* PushRealDouts leaving out a node that has no adjoint instead of raising.
RECURSIVE PushRealDouts_SkipMissing(_, _, _, _)
PushRealDouts_SkipMissing(c, nodes, i, node_list) ==
  IF i > Len(nodes) THEN [c |-> c, node_list |-> node_list]
  ELSE LET found == Find(c.anfnode_to_adjoin_, nodes[i])
       IN IF found = 0
            THEN PushRealDouts_SkipMissing(c, nodes, i + 1, node_list)
            ELSE PushRealDouts_SkipMissing(c, nodes, i + 1,
                   Append(node_list, RealDout(c.anfnode_to_adjoin_[found].second)))

\* Finish's loops pushing RealDout of each requested node (lines 195-201, 204-210).
RECURSIVE PushRealDouts(_, _, _, _)
PushRealDouts(c, nodes, i, node_list) ==
  IF i > Len(nodes) THEN [c |-> c, node_list |-> node_list]
  ELSE LET found == Find(c.anfnode_to_adjoin_, nodes[i])
       IN IF found = 0
            THEN [c |-> Throw(c, "BackPropagate adjoint does not exist for input"),
                  node_list |-> node_list]
            ELSE PushRealDouts(c, nodes, i + 1,
                   Append(node_list, RealDout(c.anfnode_to_adjoin_[found].second)))

\* tr.Replace(old_node, new_node), committed: every use of old_node in the
\* graphs the manager holds becomes a use of new_node.  The tape keeps the
\* replacements in the order they were made.
Replace(tape, old_node, new_node) ==
  [tape EXCEPT !.replaced = Append(@, [old |-> old_node, new |-> new_node])]

\* Finish's two Replace loops (218-220, 221-223): nodes[i] becomes the
\* parameter at position offset + i of the tape.
RECURSIVE ReplaceEach(_, _, _, _)
ReplaceEach(tape, nodes, offset, i) ==
  IF i > Len(nodes) THEN tape
  ELSE ReplaceEach(Replace(tape, nodes[i], Parameter(offset + i)), nodes, offset, i + 1)

\* The weights replaced by the parameters at positions 1.. instead of n + 1..
ReplaceWithParameters_NoOffset(tape, inputs_, weights) ==
  ReplaceEach(ReplaceEach(tape, inputs_, 0, 1), weights, 0, 1)

\* Finish, "Replace AnfNode with parameter of tape_" (lines 214-224).
ReplaceWithParameters(tape, inputs_, weights) ==
  ReplaceEach(ReplaceEach(tape, inputs_, 0, 1), weights, Len(inputs_), 1)

\* PrimBpropOptimizer::BpropGraphInlineOpt: the final inlining pass returns a
\* graph with the parameters and the output tuple of the graph it is given.
BpropGraphInlineOpt(tape) ==
  [parameters |-> tape.parameters, output |-> tape.output,
   replaced |-> tape.replaced]

\* ReturnTheGradient pushing the weights' gradients before the inputs'.
ReturnTheGradient_WeightsFirst(c, inputs_, weights, grad_inputs, grad_weights) ==
  LET ws  == IF grad_weights THEN PushRealDouts(c, weights, 1, << >>)
                             ELSE [c |-> c, node_list |-> << >>]
      ins == IF grad_inputs /\ ws.c.exception = "none"
               THEN PushRealDouts(ws.c, inputs_, 1, ws.node_list)
               ELSE ws
  IN IF ins.c.exception # "none" THEN ins.c
     ELSE Let([ins.c EXCEPT !.tape_ = BpropGraphInlineOpt(
                          ReplaceWithParameters([@ EXCEPT !.output = ins.node_list],
                                                inputs_, weights))],
              LAMBDA c1 : [c1 EXCEPT !.value = c1.tape_])

\* Finish from "Return the gradient" on (lines 192-231).
ReturnTheGradient(c, inputs_, weights, grad_inputs, grad_weights) ==
  LET ins == IF grad_inputs THEN PushRealDouts(c, inputs_, 1, << >>)
                            ELSE [c |-> c, node_list |-> << >>]
      ws  == IF grad_weights /\ ins.c.exception = "none"
               THEN PushRealDouts(ins.c, weights, 1, ins.node_list)
               ELSE ins
  IN IF ws.c.exception # "none" THEN ws.c
     ELSE Let([ws.c EXCEPT !.tape_ = BpropGraphInlineOpt(
                          ReplaceWithParameters([@ EXCEPT !.output = ws.node_list],
                                                inputs_, weights))],
              LAMBDA c1 : [c1 EXCEPT !.value = c1.tape_])

\* tape_->add_parameter() once per weight (lines 177-179).
RECURSIVE AddWeightParameters(_, _, _)
AddWeightParameters(c, weights, i) ==
  IF i > Len(weights) THEN c
  ELSE AddWeightParameters(AddParameter(c, "weight"), weights, i + 1)

\* The sens accumulated into the last entry of the map instead of last_node_.
SeedAndBackPropagate_SeedLastEntry(c) ==
  LET c1 == AddParameter(c, "sens")
      sens_param == Parameter(Len(c1.tape_.parameters))
  IN IF c1.anfnode_to_adjoin_ = << >>
       THEN Throw(c1, "undefined: last_node_->ToString() on nullptr")
       ELSE BackPropagate(Accumulate(c1, Len(c1.anfnode_to_adjoin_), sens_param))

\* Finish from the sens parameter to the end of BackPropagate (lines 180-190).
SeedAndBackPropagate(c) ==
  LET c1 == AddParameter(c, "sens")
      sens_param == Parameter(Len(c1.tape_.parameters))
      last_node_adjoint_iter == Find(c1.anfnode_to_adjoin_, c1.last_node_)
  IN IF last_node_adjoint_iter = 0
       THEN IF c1.last_node_ = "nullptr"
              THEN Throw(c1, "undefined: last_node_->ToString() on nullptr")
              ELSE Throw(c1, "BackPropagate adjoint does not exist for input")
       ELSE BackPropagate(Accumulate(c1, last_node_adjoint_iter, sens_param))

\* Finish starting from unset gradients whatever an earlier call accumulated.
Finish_FreshGradients(c, inputs_, weights, grad_inputs, grad_weights) ==
  LET c0 == [c EXCEPT !.anfnode_to_adjoin_ =
               [j \in 1..Len(@) |-> [@[j] EXCEPT !.second.dout_ = NullNode]]]
  IN Let(SeedAndBackPropagate(AddWeightParameters(PropagateStopGradient(c0), weights, 1)),
         LAMBDA c1 : IF c1.exception # "none" THEN c1
                     ELSE ReturnTheGradient(c1, inputs_, weights, grad_inputs, grad_weights))

\* KPynativeCellImpl::Finish
Finish(c, inputs_, weights, grad_inputs, grad_weights) ==
  Let(SeedAndBackPropagate(AddWeightParameters(PropagateStopGradient(c), weights, 1)),
      LAMBDA c1 : IF c1.exception # "none" THEN c1
                  ELSE ReturnTheGradient(c1, inputs_, weights, grad_inputs, grad_weights))

(***************************************************************************)
(* The tape's callers.                                                     *)
(***************************************************************************)
\* Recording calls made on one tape, and Finish calls made on it.  The caller
\* records the forward pass first and finishes the tape afterwards.
MaxRecords == 3
MaxFinish == 1

\* The declared inputs a tape is begun with, and the weights it is finished with.
CellInputs == { << "p0" >>, << "p0", "p1" >> }
Weights == { << >>, << "w0" >>, << "w1", "w0" >> }

\* stop_gradient flags the forward pass has put on the cnodes it created.
StopFlags == { [n \in CNodes |-> n \in S] : S \in { {}, {"n2"} } }

\* The handles a caller can pass: the one Begin returned, a null pointer, and
\* a KPynativeCell that is not a KPynativeCellImpl.
Handles == {"KPynativeCellImpl", "nullptr", "KPynativeCell"}

\* What a call on a null k_cell_impl can do: the program is killed, or the
\* call goes on with an indeterminate object and returns something.
UndefinedOutcomes == {"killed", "indeterminate"}

InitTape ==
  /\ Init
  /\ input_datas_num_ = DeclaredNum(1, 1, 2)

\* The cell's fields after a call that ended as the record c.
CellBecomes(c) ==
  /\ tape_' = c.tape_
  /\ anfnode_to_adjoin_' = c.anfnode_to_adjoin_
  /\ last_node_' = c.last_node_
  /\ need_propagate_stop_gradient_' = c.need_propagate_stop_gradient_
  /\ stop_gradient_' = c.stop_gradient_

\* What a call found: the map and the last node before it.
Before == [anfnode_to_adjoin_ |-> anfnode_to_adjoin_, last_node_ |-> last_node_,
           stop_gradient_ |-> stop_gradient_, parameters |-> tape_.parameters]

\* GradPynativeCellBegin(cell_inputs): the constructor of KPynativeCellImpl.
GradPynativeCellBegin(cell_inputs, flags) ==
  /\ k_cell = "nullptr"
  /\ k_cell' = "KPynativeCellImpl"
  /\ tape_' = [parameters |-> [i \in 1..Len(cell_inputs) |-> "input"], output |-> << >>,
               replaced |-> << >>]
  /\ anfnode_to_adjoin_' = << >>
  /\ cell_inputs_' = cell_inputs
  /\ last_node_' = "nullptr"
  /\ need_propagate_stop_gradient_' = FALSE
  /\ stop_gradient_' = flags
  /\ ret' = [op |-> "GradPynativeCellBegin", exception |-> "none"]
  /\ UNCHANGED << events, calls, actorVars, call >>

\* GradPynativeOp(k_cell, cnode, op_args, out)
GradPynativeOp(cnode) ==
  /\ k_cell = "KPynativeCellImpl"
  /\ calls.records < MaxRecords
  /\ calls.finishes + calls.others = 0
  /\ \E c \in {KPynativeOp(Cell, cnode, OpArgs(cnode), ValueOf(cnode))} :
       /\ CellBecomes(c)
       /\ ret' = [op |-> "KPynativeOp", cnode |-> cnode, exception |-> c.exception,
                  before |-> Before]
  /\ calls' = [calls EXCEPT !.records = @ + 1]
  /\ UNCHANGED << k_cell, cell_inputs_, events, actorVars, call >>

\* GradPynativeWithBProp(k_cell, cnode, op_args, out, bprop_fg)
GradPynativeWithBProp(cnode) ==
  /\ k_cell = "KPynativeCellImpl"
  /\ calls.records < MaxRecords
  /\ calls.finishes + calls.others = 0
  /\ \E c \in {KPynativeWithBProp(Cell, cnode, OpArgs(cnode), ValueOf(cnode),
                                  "user_bprop_fg")} :
       /\ CellBecomes(c)
       /\ ret' = [op |-> "KPynativeWithBProp", cnode |-> cnode,
                  exception |-> c.exception, before |-> Before]
  /\ calls' = [calls EXCEPT !.records = @ + 1]
  /\ UNCHANGED << k_cell, cell_inputs_, events, actorVars, call >>

\* GradPynativeCellEnd(k_cell, weights, grad_inputs, grad_weights) on the
\* handle Begin returned.  The message of the exception at line 184 calls
\* ToString() through last_node_: when last_node_ is null the call is
\* undefined, and the program is killed, goes on with an indeterminate value,
\* or happens to raise the exception.
CallFinish(weights, grad_inputs, grad_weights) ==
  /\ k_cell = "KPynativeCellImpl"
  /\ \E c \in {Finish(Cell, cell_inputs_, weights, grad_inputs, grad_weights)} :
       /\ CellBecomes(c)
       /\ events' = c.events
       /\ \E outcome \in IF c.exception = "undefined: last_node_->ToString() on nullptr"
                           THEN UndefinedOutcomes \cup
                                  {"BackPropagate adjoint does not exist for input"}
                           ELSE {c.exception} :
            ret' = [op |-> "Finish", k_cell |-> "KPynativeCellImpl",
                    weights |-> weights, grad_inputs |-> grad_inputs,
                    grad_weights |-> grad_weights, exception |-> outcome,
                    value |-> c.value, before |-> Before]
  /\ calls' = [calls EXCEPT !.finishes = @ + 1]
  /\ UNCHANGED << k_cell, cell_inputs_, actorVars, call >>

\* The caller finishes the tape, within the number of Finish calls it makes.
GradPynativeCellEnd(weights, grad_inputs, grad_weights) ==
  /\ calls.finishes + calls.others < MaxFinish
  /\ CallFinish(weights, grad_inputs, grad_weights)

\* The caller finishes a tape that it has finished once already.
GradPynativeCellEndAgain(weights, grad_inputs, grad_weights) ==
  /\ calls.finishes = 1 /\ calls.others = 0
  /\ CallFinish(weights, grad_inputs, grad_weights)

\* GradPynativeCellEnd on a handle Begin did not return: dynamic_pointer_cast
\* yields nullptr and Finish is called through it.
GradPynativeCellEndOnOther(handle) ==
  /\ handle \in Handles \ {"KPynativeCellImpl"}
  /\ calls.finishes + calls.others < MaxFinish
  /\ \E outcome \in UndefinedOutcomes :
       ret' = [op |-> "Finish", k_cell |-> handle, exception |-> outcome,
               value |-> IF outcome = "killed" THEN "nullptr" ELSE "indeterminate",
               before |-> Before]
  /\ calls' = [calls EXCEPT !.others = @ + 1]
  /\ UNCHANGED << k_cell, tape_, anfnode_to_adjoin_, cell_inputs_, last_node_,
                  need_propagate_stop_gradient_, stop_gradient_, events,
                  actorVars, call >>

NextTape ==
  \/ \E cell_inputs \in CellInputs, flags \in StopFlags :
       GradPynativeCellBegin(cell_inputs, flags)
  \/ \E cnode \in CNodes : GradPynativeOp(cnode)
  \/ \E cnode \in CNodes : GradPynativeWithBProp(cnode)
  \/ \E weights \in Weights, grad_inputs \in BOOLEAN, grad_weights \in BOOLEAN :
       GradPynativeCellEnd(weights, grad_inputs, grad_weights)
  \/ \E handle \in Handles : GradPynativeCellEndOnOther(handle)

SpecTape == InitTape /\ [][NextTape]_vars

\* The same caller, who may call GradPynativeCellEnd a second time.
NextRefinish ==
  \/ NextTape
  \/ \E weights \in Weights, grad_inputs \in BOOLEAN, grad_weights \in BOOLEAN :
       GradPynativeCellEndAgain(weights, grad_inputs, grad_weights)

SpecRefinish == InitTape /\ [][NextRefinish]_vars

(***************************************************************************)
(* Properties of the tape.                                                 *)
(***************************************************************************)
\* The last call was a recording call (KPynativeOp or KPynativeWithBProp).
Recorded == ret.op \in {"KPynativeOp", "KPynativeWithBProp"}

\* The last call was Finish on the tape's own handle.
Finished == ret.op = "Finish" /\ ret.k_cell = "KPynativeCellImpl"

\* C13: a recording call for a cnode that already has an adjoint ends with an
\* exception and leaves the adjoint map (with every user list) and the last
\* recorded node as they were; no node has two adjoints.
C13_RecordOnce ==
  /\ (Recorded /\ Find(ret.before.anfnode_to_adjoin_, ret.cnode) # 0) =>
       /\ ret.exception # "none"
       /\ anfnode_to_adjoin_ = ret.before.anfnode_to_adjoin_
       /\ last_node_ = ret.before.last_node_
  /\ \A j, k \in 1..Len(anfnode_to_adjoin_) :
       anfnode_to_adjoin_[j].first = anfnode_to_adjoin_[k].first => j = k

\* A second recording of a cnode was refused by BuildAdjoint's own check,
\* on a tape that holds user links.
C13_Witness ==
  /\ Recorded
  /\ ret.exception = "CNode should be unique"
  /\ Find(ret.before.anfnode_to_adjoin_, ret.cnode) # 0
  /\ \E j \in 1..Len(anfnode_to_adjoin_) : anfnode_to_adjoin_[j].second.users_ # << >>

\* C14: GradPynativeCellEnd on a handle that Begin did not return ends with a
\* reported error (an exception the program raises) and returns no graph.
C14_EndRejected ==
  (ret.op = "Finish" /\ ret.k_cell # "KPynativeCellImpl") =>
    /\ ret.exception \notin UndefinedOutcomes \cup {"none"}
    /\ ret.value = "nullptr"

\* The summands of an accumulated gradient: the leaves of its hyper_add tree.
RECURSIVE Summands(_)
Summands(expr) ==
  IF expr = NullNode THEN << >>
  ELSE IF expr.kind = "hyper_add" THEN Summands(expr.lhs) \o Summands(expr.rhs)
  ELSE << expr >>

\* The adjoint of a node that has one.
AdjointOf(node) == anfnode_to_adjoin_[Find(anfnode_to_adjoin_, node)].second

\* The (cnode, argument position) pairs at which a node is an argument of a
\* registered cnode that is not stopped.
UsesOf(node) ==
  { << anfnode_to_adjoin_[j].first, i >> :
      j \in 1..Len(anfnode_to_adjoin_), i \in 1..4 } \cap
  { u \in CNodes \X (1..4) :
      /\ u[2] < Len(inputs(u[1]))
      /\ ~stop_gradient_[u[1]]
      /\ input(u[1], u[2]) = node }

\* The contribution a summand stands for: the pair of its backward call's
\* cnode and the argument position, or "sens" for the sensitivity parameter.
ContributionOf(expr) ==
  IF expr.kind = "tuple_getitem" THEN << expr.bprop_app.cnode, expr.index + 1 >>
  ELSE IF expr.kind = "Parameter" THEN << "sens", expr.index >>
  ELSE << "other", 0 >>

\* The first Finish on the tape returned its graph.
FirstFinishReturned == Finished /\ ret.exception = "none" /\ calls.finishes = 1

\* C15: after Finish, the accumulated gradient of every adjoint has exactly
\* one summand per (registered cnode that is not stopped, argument position)
\* at which the adjoint's node is the argument, plus the sensitivity
\* parameter if the node is the last recorded one, and nothing else.
C15_GradientIsSumOfContributions ==
  FirstFinishReturned =>
    \A j \in 1..Len(anfnode_to_adjoin_) :
      LET node == anfnode_to_adjoin_[j].first
          summands == Summands(anfnode_to_adjoin_[j].second.dout_)
          expected == UsesOf(node) \cup
                        (IF node = last_node_
                           THEN { << "sens", Len(tape_.parameters) >> } ELSE {})
      IN /\ { ContributionOf(summands[k]) : k \in 1..Len(summands) } = expected
         /\ Len(summands) = Cardinality(expected)

\* n1 = F(p0) and n2 = G(n1, p0) were recorded and the tape finished: the
\* gradient of p0 has two summands, one from n2 and one from n1.
C15_Witness ==
  /\ FirstFinishReturned
  /\ Find(anfnode_to_adjoin_, "p0") # 0
  /\ UsesOf("p0") = { << "n1", 1 >>, << "n2", 2 >> }
  /\ Len(Summands(AdjointOf("p0").dout_)) = 2

(***************************************************************************)
(* AccumulateDout applied on its own to drawn contributions.               *)
(***************************************************************************)
\* Contributions drawn for one adjoint, and the values a contribution takes.
MaxContributions == 3
ContributionValues == {-1, 1, 2}

\* A gradient contribution: a node of the tape graph with the value it
\* evaluates to.
Contribution(id, value) == [kind |-> "contribution", id |-> id, value |-> value]

\* The value of a gradient expression: hyper_add adds the values of its two
\* operands; an unset gradient is realized as zeros.
RECURSIVE Eval(_)
Eval(expr) ==
  IF expr = NullNode THEN 0
  ELSE IF expr.kind = "hyper_add" THEN Eval(expr.lhs) + Eval(expr.rhs)
  ELSE IF expr.kind = "contribution" THEN expr.value
  ELSE 0

\* The sum of the values of a set of contributions.
RECURSIVE SumOf(_)
SumOf(S) ==
  IF S = {} THEN 0
  ELSE LET x == CHOOSE x \in S : TRUE IN x.value + SumOf(S \ {x})

\* The sets of contributions drawn: one value for each of the first n ids.
ContributionSets ==
  UNION { { { Contribution(id, f[id]) : id \in 1..n } :
              f \in [1..n -> ContributionValues] } : n \in 0..MaxContributions }

\* Every actor as constructed, nothing delivered yet (the declared input data
\* counts left open).
ActorsAtRest ==
  /\ input_controls_num_ = InputControlsNum
  /\ output_data_nodes_ = OutputDataNodes
  /\ output_data_ = [a \in Actors |-> InitOutputData(a).output_data_]
  /\ batch_output_data_ = [a \in Actors |-> InitOutputData(a).batch_output_data_]
  /\ to_stack_data_ = [a \in Actors |-> << >>]
  /\ input_op_datas_ = [a \in Actors |-> EmptyMap]
  /\ input_op_controls_ = [a \in Actors |-> EmptyMap]
  /\ mailbox = [a \in Actors |-> << >>]
  /\ context = [seq \in Runs |-> << >>]
  /\ injected = [seq \in Runs |-> 0]
  /\ delivered = [a \in Actors |-> [seq \in Runs |-> 0]]
  /\ runCount = [a \in Actors |-> [seq \in Runs |-> 0]]
  /\ sent = [a \in Actors |-> [seq \in Runs |->
               [i \in 1..Len(output_data_arrows_(a)) |-> 0]]]
  /\ last = [method |-> "none", actor |-> "none", seq |-> 0, batch |-> << >>,
             steps |-> << >>]
  /\ solo = [a \in Actors |-> [seq \in Runs |->
               [input_op_datas_ |-> EmptyMap, input_op_controls_ |-> EmptyMap,
                runs |-> 0]]]

\* The actor runtime as constructed, with no message sent.
ActorsIdle ==
  /\ input_datas_num_ = DeclaredNum(1, 1, 2)
  /\ ActorsAtRest

InitAccumulate ==
  /\ ActorsIdle
  /\ NoCell
  /\ \E S \in ContributionSets :
       call = [op |-> "AccumulateDout",
               adjoint |-> PynativeAdjoint(<< >>, ValueOf("p0"), "nullptr"),
               all |-> S, applied |-> {}]

\* AccumulateDout(dout_factor) with one of the contributions not yet applied:
\* the contributions arrive in any order.
ApplyAccumulateDout(dout_factor) ==
  /\ call.op = "AccumulateDout"
  /\ dout_factor \in call.all \ call.applied
  /\ call' = [call EXCEPT !.adjoint = AccumulateDout(@, dout_factor),
                          !.applied = @ \cup {dout_factor}]
  /\ UNCHANGED << actorVars, tapeVars >>

NextAccumulate ==
  \E id \in 1..MaxContributions, value \in ContributionValues :
    ApplyAccumulateDout(Contribution(id, value))

SpecAccumulate == InitAccumulate /\ [][NextAccumulate]_vars

\* C16: whatever the order in which AccumulateDout was applied to the
\* contributions, the accumulated gradient evaluates to the sum of the
\* contributions applied, so after all of them its value is the sum of the set.
C16_OrderIndependentSum ==
  call.op = "AccumulateDout" =>
    /\ Eval(call.adjoint.dout_) = SumOf(call.applied)
    /\ call.applied = call.all => Eval(call.adjoint.dout_) = SumOf(call.all)

\* Three contributions were applied, the smallest id last.
C16_Witness ==
  /\ call.op = "AccumulateDout"
  /\ Cardinality(call.all) = 3
  /\ call.applied = call.all
  /\ call.adjoint.dout_.kind = "hyper_add"
  /\ call.adjoint.dout_.rhs.id = 1

\* The users of the node at a position of the map.
UsersAt(j) == anfnode_to_adjoin_[j].second.users_

\* A stop_gradient or update_state marker op.
IsMarker(cnode) ==
  IsPrimitiveCNode(cnode, "StopGradient") \/ IsPrimitiveCNode(cnode, "UpdateState")

\* C17: after the stop-gradient propagation of Finish has run (the tape-wide
\* flag is set), every registered cnode that has users, all of them stopped,
\* is stopped, and no cnode without users became stopped unless it is a
\* stop_gradient or update_state op.
C17_StopPropagation ==
  (Finished /\ need_propagate_stop_gradient_) =>
    \A j \in 1..Len(anfnode_to_adjoin_) :
      LET node == anfnode_to_adjoin_[j].first
      IN IsCNode(node) =>
           /\ (UsersAt(j) # << >>
                 /\ \A u \in 1..Len(UsersAt(j)) : stop_gradient_[UsersAt(j)[u]])
                => stop_gradient_[node]
           /\ (UsersAt(j) = << >> /\ stop_gradient_[node]
                 /\ ~ret.before.stop_gradient_[node])
                => IsMarker(node)

\* n3 = StopGradient(n2) stopped n2, and n2 in turn stopped n1, whose only
\* user it is; none of them was stopped before.
C17_Witness ==
  /\ Finished /\ need_propagate_stop_gradient_
  /\ Find(anfnode_to_adjoin_, "n1") # 0
  /\ AdjointOf("n1").users_ = << "n2" >>
  /\ AdjointOf("n2").users_ = << "n3" >>
  /\ stop_gradient_["n1"] /\ stop_gradient_["n2"] /\ stop_gradient_["n3"]
  /\ \A n \in CNodes : ~ret.before.stop_gradient_[n]

\* The backward calls the last Finish built for a cnode.
BpropAppsOf(cnode) ==
  { k \in 1..Len(events) : events[k].kind = "bprop_app" /\ events[k].node = cnode }

\* The contributions the last Finish accumulated from a cnode's backward call
\* for one of its argument positions.
ContributionsFrom(cnode, i) ==
  { k \in 1..Len(events) :
      /\ events[k].kind = "accumulate"
      /\ events[k].expr.kind = "tuple_getitem"
      /\ events[k].expr.bprop_app.cnode = cnode
      /\ events[k].expr.index = i - 1
      /\ events[k].node = input(cnode, i) }

\* A cnode that carries the stop_gradient mark itself: flagged before Finish,
\* or a stop_gradient / update_state op.
DirectlyMarked(cnode) == ret.before.stop_gradient_[cnode] \/ IsMarker(cnode)

\* C18: a Finish that returns builds no backward call for a registered cnode
\* that is directly marked and accumulates no contribution from it, and for
\* every registered cnode that is not stopped it builds one backward call and
\* accumulates one contribution into each of its arguments.
C18_StoppedNodeSkipped ==
  (Finished /\ ret.exception = "none") =>
    \A j \in 1..Len(anfnode_to_adjoin_) :
      LET cnode == anfnode_to_adjoin_[j].first
          args == 1..(Len(inputs(cnode)) - 1)
      IN IsCNode(cnode) =>
           /\ DirectlyMarked(cnode) =>
                /\ BpropAppsOf(cnode) = {}
                /\ \A i \in args : ContributionsFrom(cnode, i) = {}
           /\ ~stop_gradient_[cnode] =>
                /\ Cardinality(BpropAppsOf(cnode)) = 1
                /\ \A i \in args : Cardinality(ContributionsFrom(cnode, i)) = 1

\* n2, flagged by the forward pass, and n1 are registered; Finish returned
\* having skipped n2 and built the backward call of n1.
C18_Witness ==
  /\ Finished /\ ret.exception = "none"
  /\ ret.before.stop_gradient_["n2"]
  /\ Find(anfnode_to_adjoin_, "n2") # 0
  /\ BpropAppsOf("n2") = {}
  /\ Cardinality(BpropAppsOf("n1")) = 1

\* The number of argument positions of a cnode that hold a node.
Positions(cnode, node) ==
  Cardinality({ i \in 1..(Len(inputs(cnode)) - 1) : input(cnode, i) = node })

\* A user list of n copies of a cnode.
Copies(cnode, n) == [k \in 1..n |-> cnode]

\* C19: after a recording call for cnode c that returned, every argument of c
\* has an adjoint; an argument that had one before keeps it, with c appended
\* to its users once per position it occupies, and an argument that had none
\* has a new leaf adjoint (no backward function, no gradient yet) whose users
\* are c, once per position.
C19_ArgumentsGetUserLinks ==
  (Recorded /\ ret.exception = "none") =>
    \A i \in 1..(Len(inputs(ret.cnode)) - 1) :
      LET arg == input(ret.cnode, i)
          old == Find(ret.before.anfnode_to_adjoin_, arg)
          new == Find(anfnode_to_adjoin_, arg)
          links == Copies(ret.cnode, Positions(ret.cnode, arg))
      IN /\ new # 0
         /\ old # 0 =>
              anfnode_to_adjoin_[new].second =
                [ret.before.anfnode_to_adjoin_[old].second EXCEPT !.users_ = @ \o links]
         /\ old = 0 =>
              anfnode_to_adjoin_[new].second =
                [PynativeAdjoint(<< >>, ValueOf(arg), "nullptr") EXCEPT !.users_ = links]

\* n5 = UpdateState(w0, n1, w0) was recorded: n1 had an adjoint and gained
\* the link, w0 had none and got a leaf adjoint with two links.
C19_Witness ==
  /\ Recorded /\ ret.exception = "none" /\ ret.cnode = "n5"
  /\ Find(ret.before.anfnode_to_adjoin_, "w0") = 0
  /\ AdjointOf("w0").users_ = << "n5", "n5" >>
  /\ AdjointOf("n1").users_ # << "n5" >>

\* The realized gradients of a list of nodes, in the order of the list.
RealDoutsOf(nodes) == [i \in 1..Len(nodes) |-> RealDout(AdjointOf(nodes[i]))]

\* C20: the output of a tape whose Finish returned is the tuple of the
\* realized gradients of the declared inputs in declaration order, present
\* only if grad_inputs, followed by those of the weights in the order given,
\* present only if grad_weights; its length is the sum of the two counts.
C20_OutputTuple ==
  (Finished /\ ret.exception = "none") =>
    /\ ret.value.output =
         (IF ret.grad_inputs THEN RealDoutsOf(cell_inputs_) ELSE << >>) \o
         (IF ret.grad_weights THEN RealDoutsOf(ret.weights) ELSE << >>)
    /\ Len(ret.value.output) =
         (IF ret.grad_inputs THEN Len(cell_inputs_) ELSE 0) +
         (IF ret.grad_weights THEN Len(ret.weights) ELSE 0)
    /\ tape_.output = ret.value.output

\* Two inputs and two weights, all gradients requested: four components, the
\* inputs' first, no two of them the same expression except by value.
C20_Witness ==
  /\ Finished /\ ret.exception = "none"
  /\ ret.grad_inputs /\ ret.grad_weights
  /\ cell_inputs_ = << "p0", "p1" >>
  /\ ret.weights = << "w1", "w0" >>
  /\ Len(ret.value.output) = 4
  /\ ret.value.output[1] # ret.value.output[2]
  /\ ret.value.output[3] # ret.value.output[4]
  /\ ret.value.output[2] # ret.value.output[3]

\* A node whose gradient the last Finish call was asked for had no adjoint
\* when Finish was called (Finish itself registers no adjoint).
MissingRequested ==
  /\ Finished
  /\ \/ ret.grad_inputs /\ \E i \in 1..Len(cell_inputs_) :
            Find(ret.before.anfnode_to_adjoin_, cell_inputs_[i]) = 0
     \/ ret.grad_weights /\ \E i \in 1..Len(ret.weights) :
            Find(ret.before.anfnode_to_adjoin_, ret.weights[i]) = 0

\* The errors the tape raises through MS_LOG(EXCEPTION) or MS_EXCEPTION_IF_NULL.
FatalErrors ==
  {"BackPropagate adjoint does not exist for input",
   "BackPropagate adjoint does not exist input",
   "should be primitive", "Should be primitive", "Should be func graph",
   "bprop_fg is null", "CNode should be unique",
   "Cannot find adjoint for anfnode"}

FreeVariables(bprop_fg) ==
  IF bprop_fg = "user_bprop_fg" THEN {"p1", "w1"} ELSE {}

\* The forward nodes referred to from the body of the tape.
ReferencesOf(evs) ==
  UNION {FreeVariables(e.expr.bprop_fg) : e \in {x \in Range(evs) : x.kind = "bprop_app"}}

\* What a reference to a forward node in the tape body is after the committed
\* replacements: the new node of the last replacement made for it, the node
\* itself when there is none.
Resolve(tape, node) ==
  LET made == {k \in 1..Len(tape.replaced) : tape.replaced[k].old = node}
  IN IF made = {} THEN [kind |-> "AnfNode", node |-> node]
     ELSE tape.replaced[CHOOSE k \in made : \A m \in made : m <= k].new

\* C22: a tape has one parameter per declared input until its first Finish;
\* the first Finish (one that does not run into undefined behaviour) leaves
\* it with the inputs' parameters, one per weight and the sens parameter, in
\* this order, whatever grad_weights is; and when it returns, a reference to
\* input i is parameter i and a reference to weight j is parameter n + j.
C22_ParameterList ==
  /\ (k_cell = "KPynativeCellImpl" /\ calls.finishes = 0) =>
        tape_.parameters = [i \in 1..Len(cell_inputs_) |-> "input"]
  /\ (Finished /\ calls.finishes = 1 /\ ret.exception \notin UndefinedOutcomes) =>
        /\ tape_.parameters =
             [i \in 1..Len(cell_inputs_) |-> "input"] \o
             [j \in 1..Len(ret.weights) |-> "weight"] \o << "sens" >>
        /\ Len(tape_.parameters) = Len(cell_inputs_) + Len(ret.weights) + 1
        /\ ret.exception = "none" =>
             /\ \A i \in 1..Len(cell_inputs_) :
                  Resolve(ret.value, cell_inputs_[i]) = Parameter(i)
             /\ \A j \in 1..Len(ret.weights) :
                  Resolve(ret.value, ret.weights[j]) = Parameter(Len(cell_inputs_) + j)
             /\ tape_ = ret.value

\* Two inputs and two weights, weight gradients not requested, and a user
\* bprop graph in the tape that refers to the input p1 and the weight w1:
\* five parameters, p1 became parameter 2 and w1 parameter 3.
C22_Witness ==
  /\ Finished /\ calls.finishes = 1 /\ ret.exception = "none"
  /\ ~ret.grad_weights
  /\ cell_inputs_ = << "p0", "p1" >>
  /\ ret.weights = << "w1", "w0" >>
  /\ tape_.parameters = << "input", "input", "weight", "weight", "sens" >>
  /\ {"p1", "w1"} \subseteq ReferencesOf(events)
  /\ Resolve(tape_, "p1") = Parameter(2)
  /\ Resolve(tape_, "w1") = Parameter(3)

\* The last call was KPynativeOp for a cnode whose primitive has no
\* registered backward rule.
RecordedUnregistered ==
  /\ ret.op = "KPynativeOp"
  /\ GetCNodePrimitive(ret.cnode) # "nullptr"
  /\ GetBprop(GetCNodePrimitive(ret.cnode)) = "nullptr"

\* C23: KPynativeOp for a primitive with no registered backward rule ends
\* with a fatal error and leaves the adjoint map (no new adjoint, every user
\* list as it was) and the last recorded node unchanged; no cnode of the map
\* is ever without a backward function, so back-propagation never has to
\* fall back on a missing rule.
C23_UnregisteredPrimitiveIsFatal ==
  /\ RecordedUnregistered =>
       /\ ret.exception = "bprop_fg is null"
       /\ anfnode_to_adjoin_ = ret.before.anfnode_to_adjoin_
       /\ last_node_ = ret.before.last_node_
  /\ \A j \in 1..Len(anfnode_to_adjoin_) :
       IsCNode(anfnode_to_adjoin_[j].first) =>
         anfnode_to_adjoin_[j].second.bprop_fg_ # "nullptr"

\* n6 = H(n1) is recorded after n1: the call raises, n1 has no user and is
\* still the last node, and n6 has no adjoint.
C23_Witness ==
  /\ RecordedUnregistered
  /\ ret.cnode = "n6"
  /\ ret.exception = "bprop_fg is null"
  /\ last_node_ = "n1"
  /\ Find(anfnode_to_adjoin_, "n1") # 0
  /\ AdjointOf("n1").users_ = << >>
  /\ Find(anfnode_to_adjoin_, "n6") = 0

(***************************************************************************)
(* Two senders on different threads deliver to one destination.            *)
(***************************************************************************)
\* The threads on which the two senders fire, and the threads that run the
\* destination's handlers.
SenderThreads == {"sender1", "sender2"}
WorkerThreads == {"worker1", "worker2"}

\* The destination: it declares two input data and no input control.
Destination == EntryActor

InitThreads ==
  /\ input_datas_num_ = DeclaredNum(2, 1, 2)
  /\ ActorsAtRest
  /\ NoCell
  /\ call = [op |-> "threads",
             sender |-> [t \in SenderThreads |-> 0],
             pc |-> [w \in WorkerThreads |-> "idle"],
             msg |-> [w \in WorkerThreads |-> Message("none", NoPtr, "none", 0)],
             appended |-> [seq \in Runs |-> 0],
             seen |-> [seq \in Runs |-> << >>]]

\* The destination's messages are handled one at a time: a thread takes the
\* next message only while no thread is inside a handler of the actor.
ActorIsFree == \A w \in WorkerThreads : call.pc[w] = "idle"

\* The sender firing on thread t reaches ActorDispatcher::Send for its data
\* arrow to the destination (line 175), for run seq.
SendToDestination(t, seq) ==
  /\ call.op = "threads"
  /\ call.sender[t] = 0
  /\ mailbox' = [mailbox EXCEPT ![Destination] =
                   Append(@, Message("RunOpData", CallerPtr(seq), t, seq))]
  /\ call' = [call EXCEPT !.sender[t] = seq]
  /\ UNCHANGED << input_datas_num_, input_controls_num_, output_data_nodes_,
                  output_data_, batch_output_data_, to_stack_data_, input_op_datas_,
                  input_op_controls_, context, injected, delivered, runCount, sent,
                  last, solo, tapeVars >>

\* Thread w takes the destination's next message and enters RunOpData.
TakeMessage(w) ==
  /\ call.op = "threads"
  /\ ActorIsFree
  /\ mailbox[Destination] # << >>
  /\ mailbox' = [mailbox EXCEPT ![Destination] = Tail(@)]
  /\ call' = [call EXCEPT !.pc[w] = "line29", !.msg[w] = Head(mailbox[Destination])]
  /\ UNCHANGED << input_datas_num_, input_controls_num_, output_data_nodes_,
                  output_data_, batch_output_data_, to_stack_data_, input_op_datas_,
                  input_op_controls_, context, injected, delivered, runCount, sent,
                  last, solo, tapeVars >>

\* RunOpData line 29: input_op_datas_[sequential_num].emplace_back(input_data)
RunOpDataLine29(w) ==
  /\ call.op = "threads"
  /\ call.pc[w] = "line29"
  /\ input_op_datas_' = [input_op_datas_ EXCEPT ![Destination] =
                           MapEmplaceBack(@, call.msg[w].seq, call.msg[w].data)]
  /\ call' = [call EXCEPT !.pc[w] = "line31", !.appended[call.msg[w].seq] = @ + 1]
  /\ UNCHANGED << input_datas_num_, input_controls_num_, output_data_nodes_,
                  output_data_, batch_output_data_, to_stack_data_,
                  input_op_controls_, mailbox, context, injected, delivered, runCount,
                  sent, last, solo, tapeVars >>

\* RunOpData line 31: is_run = CheckRunningCondition(context)
RunOpDataLine31(w) ==
  /\ call.op = "threads"
  /\ call.pc[w] = "line31"
  /\ LET seq == call.msg[w].seq
         is_run == CheckRunningCondition(State, Destination, seq).ret
     IN call' = [call EXCEPT
                   !.pc[w] = IF is_run THEN "line34" ELSE "idle",
                   !.seen[seq] = IF is_run
                                   THEN Append(@, PendingLen(input_op_datas_[Destination], seq))
                                   ELSE @]
  /\ UNCHANGED << actorVars, tapeVars >>

\* RunOpData line 34: Run(context), which erases the run's pending input and
\* sends the output.
RunOpDataLine34(w) ==
  /\ call.op = "threads"
  /\ call.pc[w] = "line34"
  /\ \E r \in {Run(State, Destination, call.msg[w].seq)} :
       /\ input_op_datas_' = r.st.input_op_datas_
       /\ input_op_controls_' = r.st.input_op_controls_
       /\ output_data_' = r.st.output_data_
       /\ to_stack_data_' = r.st.to_stack_data_
       /\ mailbox' = r.st.mailbox
       /\ context' = r.st.context
  /\ runCount' = [runCount EXCEPT ![Destination][call.msg[w].seq] = @ + 1]
  /\ call' = [call EXCEPT !.pc[w] = "idle"]
  /\ UNCHANGED << input_datas_num_, input_controls_num_, output_data_nodes_,
                  batch_output_data_, injected, delivered, sent, last, solo, tapeVars >>

NextThreads ==
  \/ \E t \in SenderThreads, seq \in Runs : SendToDestination(t, seq)
  \/ \E w \in WorkerThreads : TakeMessage(w)
  \/ \E w \in WorkerThreads : RunOpDataLine29(w)
  \/ \E w \in WorkerThreads : RunOpDataLine31(w)
  \/ \E w \in WorkerThreads : RunOpDataLine34(w)

SpecThreads == InitThreads /\ [][NextThreads]_vars

\* Every message sent to the destination has been handled to the end.
Quiescent ==
  /\ \A t \in SenderThreads : call.sender[t] # 0
  /\ mailbox[Destination] = << >>
  /\ ActorIsFree

\* The senders that delivered for run seq.
SendersOf(seq) == {t \in SenderThreads : call.sender[t] = seq}

DataSendKinds == {"data", "batch", "stack"}

\* The arrows whose envelopes a send step carries: the arrow itself, and for
\* a batch send every arrow in the batch list of the destination.
CarriedBy(a, e) ==
  IF e.kind = "batch" THEN Range(batch_output_data_[a][e.to]) ELSE {e.arrow}

BatchArrowsTo(a, d) ==
  {i \in 1..Len(output_data_arrows_(a)) :
     /\ output_data_arrows_(a)[i].to_op_id_ = d
     /\ output_data_arrows_(a)[i].flag_ = "kOutputDataFalgBatch"}

\* The steps of a log that send a batch to a destination.
BatchSends(log, d) == {y \in 1..Len(log) : log[y].kind = "batch" /\ log[y].to = d}

\* C26: in one firing no message is sent at an envelope flagged Batch; for
\* each destination with batch arrows exactly one RunBatchOpData is sent, at
\* the envelope of the last batch arrow to it, which is the only one flagged
\* LastBatch; the vector it points to holds every batch envelope of the
\* destination exactly once, and each of them was refreshed before the send.
C26_BatchFlushedOnce ==
  \A j \in 1..Len(last.steps) :
    LET log == last.steps[j].log
        a == last.actor
    IN (\E x \in 1..Len(log) : log[x].kind = "update") =>
         /\ \A y \in 1..Len(log) :
              log[y].kind \in DataSendKinds =>
                output_data_[a][log[y].arrow].second # "kOutputDataFalgBatch"
         /\ \A d \in Actors :
              LET arrows == BatchArrowsTo(a, d)
                  lastBatch == CHOOSE i \in arrows : \A k \in arrows : k <= i
              IN IF arrows = {} THEN BatchSends(log, d) = {}
                 ELSE
                   /\ Cardinality(BatchSends(log, d)) = 1
                   /\ \A y \in BatchSends(log, d) :
                        /\ log[y].arrow = lastBatch
                        /\ \A k \in arrows :
                             \E x \in 1..(y - 1) : log[x] = Event("update", d, k)
                   /\ {i \in 1..Len(output_data_[a]) :
                         /\ output_data_[a][i].first.op_id_ = d
                         /\ output_data_[a][i].second = "kOutputDataFalgLastBatch"}
                        = {lastBatch}
                   /\ Len(BatchOf(a, d)) = Cardinality(arrows)
                   /\ Range(BatchOf(a, d)) = {CachePtr(a, k) : k \in arrows}
                   /\ \A k \in arrows : Deref(State, CachePtr(a, k)).op_id_ = d

\* Z has fired for a run: both batch envelopes for W were refreshed, nothing
\* was sent at the first one, the batch was sent at the second one, and W has
\* the one RunBatchOpData message of the run in its mailbox.
C26_Witness ==
  /\ last.actor = "Z"
  /\ \E j \in 1..Len(last.steps) :
       LET log == last.steps[j].log
       IN /\ Len(log) >= 3
          /\ log[1] = Event("update", "W", 1)
          /\ log[2] = Event("update", "W", 2)
          /\ log[3] = Event("batch", "W", 2)
  /\ BatchOf("Z", "W") = << CachePtr("Z", 1), CachePtr("Z", 2) >>
  /\ Cardinality({k \in 1..Len(mailbox["W"]) :
                    mailbox["W"][k] = Message("RunBatchOpData", BatchPtr("Z"), "Z", last.seq)}) = 1

\* The stack actors.
StackActors == {a \in Actors : IsStackActorName(a)}

\* The arrows of an actor whose destination is a stack actor.
StackArrows(a) ==
  {i \in 1..Len(output_data_arrows_(a)) :
     IsStackActorName(output_data_arrows_(a)[i].to_op_id_)}

\* The envelopes delivered to stack actor d and not consumed yet, each with
\* the run it was sent for: those of the messages in its mailbox and those
\* in its pending lists.
HeldByStack(d) ==
  {[data |-> mailbox[d][k].data, seq |-> mailbox[d][k].seq, at |-> << "mailbox", k >>] :
     k \in 1..Len(mailbox[d])}
  \cup
  UNION {{[data |-> input_op_datas_[d][seq][k], seq |-> seq, at |-> << "pending", seq, k >>] :
            k \in 1..Len(input_op_datas_[d][seq])} : seq \in DOMAIN input_op_datas_[d]}

\* Every envelope delivered to a stack actor is one allocated for that send:
\* not a cached envelope, not the envelope of another delivery, addressed to
\* the stack actor with the arrow's input index and holding the value the
\* sender computed for the run it was sent for.
StackEnvelopesAreOwn ==
  \A d \in StackActors :
    /\ \A h \in HeldByStack(d) :
         /\ h.data.kind = "stack"
         /\ h.data.i \in 1..Len(to_stack_data_[h.data.own])
         /\ Deref(State, h.data).op_id_ = d
         /\ Deref(State, h.data).data_ = OutputValue(h.data.own, h.seq)
         /\ \E i \in StackArrows(h.data.own) :
              Deref(State, h.data).index_ = output_data_arrows_(h.data.own)[i].to_input_index_
    /\ \A g, h \in HeldByStack(d) : g.at # h.at => g.data # h.data

\* No step changes an envelope that was allocated for a stack actor: the
\* list only grows.
StackEnvelopesKept ==
  \A a \in Actors :
    /\ Len(to_stack_data_'[a]) >= Len(to_stack_data_[a])
    /\ \A k \in 1..Len(to_stack_data_[a]) : to_stack_data_'[a][k] = to_stack_data_[a][k]

\* C27: every send to a stack actor delivers an envelope allocated for that
\* send, distinct from the cached envelope and from the envelopes of the
\* other sends, with the cached envelope's value and index at the time of
\* the send; and no later firing changes an envelope already delivered.
C27_StackEnvelopes == [][StackEnvelopesAreOwn' /\ StackEnvelopesKept]_vars

\* Z fired for run 1 and then for run 2: the stack actor holds two distinct
\* envelopes, the first still with the value of run 1 although Z's cached
\* envelope now holds the value of run 2.
C27_Witness ==
  /\ Len(to_stack_data_["Z"]) = 2
  /\ to_stack_data_["Z"][1].data_ = OutputValue("Z", 1)
  /\ to_stack_data_["Z"][2].data_ = OutputValue("Z", 2)
  /\ output_data_["Z"][3].first.data_ = OutputValue("Z", 2)
  /\ \E g, h \in HeldByStack("S_StackActor") :
       /\ g.data = StackPtr("Z", 1) /\ g.seq = 1
       /\ h.data = StackPtr("Z", 2) /\ h.seq = 2

(***************************************************************************)
(* InitOutputData applied to the arrow lists a scheduler can give an actor. *)
(***************************************************************************)
MaxArrows == 3

\* The flags the scheduler sets on a data arrow, and the destinations.
ArrowFlags == {"kOutputDataFalgInit", "kOutputDataFalgBatch"}
ArrowDestinations == {"W", "Y", "S_StackActor"}

\* The lists of at most MaxArrows data arrows; arrow i feeds input i - 1.
ArrowLists ==
  UNION {{[i \in 1..n |-> DataArrow(f[i][1], i - 1, f[i][2])] :
            f \in [1..n -> ArrowDestinations \X ArrowFlags]} : n \in 0..MaxArrows}

InitInitOutputData ==
  /\ ActorsIdle
  /\ NoCell
  /\ \E arrows \in ArrowLists :
       call = [op |-> "InitOutputData", arrows |-> arrows, done |-> FALSE,
               output_data_ |-> << >>,
               batch_output_data_ |-> [d \in Actors |-> << >>],
               exception |-> FALSE]

\* InitOutputData() on an actor whose output_data_arrows_ is call.arrows.
ApplyInitOutputData ==
  /\ call.op = "InitOutputData"
  /\ ~call.done
  /\ \E r \in {InitOutputDataFrom(call.arrows, 1, << >>,
                                  [d \in Actors |-> << >>], [d \in Actors |-> 0])} :
       call' = [call EXCEPT !.done = TRUE,
                            !.output_data_ = r.output_data_,
                            !.batch_output_data_ = r.batch_output_data_,
                            !.exception = r.exception]
  /\ UNCHANGED << actorVars, tapeVars >>

NextInitOutputData == ApplyInitOutputData

SpecInitOutputData == InitInitOutputData /\ [][NextInitOutputData]_vars

\* The positions of the arrows that carry the Batch flag to a stack actor.
BatchToStack(arrows) ==
  {i \in 1..Len(arrows) :
     /\ arrows[i].flag_ = "kOutputDataFalgBatch"
     /\ IsStackActorName(arrows[i].to_op_id_)}

\* C28: InitOutputData raises exactly when some arrow carries the Batch flag
\* to a stack actor, at the first such arrow (only the envelopes of the
\* arrows before it have been built); when it does not raise, no batch list
\* holds an envelope addressed to a stack actor and the batch list of a
\* stack actor is empty.
C28_NoBatchToStack ==
  (call.op = "InitOutputData" /\ call.done) =>
    /\ call.exception <=> BatchToStack(call.arrows) # {}
    /\ call.exception =>
         \E i \in BatchToStack(call.arrows) :
           /\ \A k \in BatchToStack(call.arrows) : i <= k
           /\ Len(call.output_data_) = i - 1
    /\ ~call.exception =>
         /\ Len(call.output_data_) = Len(call.arrows)
         /\ \A d \in Actors :
              /\ IsStackActorName(d) => call.batch_output_data_[d] = << >>
              /\ \A k \in Range(call.batch_output_data_[d]) :
                   /\ call.output_data_[k].first.op_id_ = d
                   /\ ~IsStackActorName(call.output_data_[k].first.op_id_)
         /\ \A i \in 1..Len(call.arrows) :
              call.arrows[i].flag_ = "kOutputDataFalgBatch" =>
                i \in Range(call.batch_output_data_[call.arrows[i].to_op_id_])

\* A batch arrow to W, then a batch arrow to the stack actor, then another
\* arrow: the call raised at the second arrow.
C28_Witness ==
  /\ call.op = "InitOutputData" /\ call.done
  /\ call.arrows = << DataArrow("W", 0, "kOutputDataFalgBatch"),
                      DataArrow("S_StackActor", 1, "kOutputDataFalgBatch"),
                      DataArrow("Y", 2, "kOutputDataFalgInit") >>
  /\ call.exception
  /\ Len(call.output_data_) = 1

\* The steps of the last Finish that built a backward call.
BpropAppSteps == {y \in 1..Len(events) : events[y].kind = "bprop_app"}

\* The steps of the last Finish that accumulated a contribution into a node.
AccumulateSteps(node) ==
  {x \in 1..Len(events) : events[x].kind = "accumulate" /\ events[x].node = node}

\* C29: Finish builds the backward calls in reverse recording order; when
\* the backward call of a node is built, a contribution of each of its
\* non-stopped users has been accumulated into the node, and none is
\* accumulated into it afterwards.
C29_ReverseTopologicalOrder ==
  Finished =>
    /\ \A y1, y2 \in BpropAppSteps :
         y1 < y2 => Find(anfnode_to_adjoin_, events[y1].node) >
                    Find(anfnode_to_adjoin_, events[y2].node)
    /\ \A y \in BpropAppSteps :
         /\ \A x \in AccumulateSteps(events[y].node) : x < y
         /\ \A u \in Range(AdjointOf(events[y].node).users_) :
              ~stop_gradient_[u] =>
                \E x \in AccumulateSteps(events[y].node) :
                  /\ x < y
                  /\ events[x].expr.kind = "tuple_getitem"
                  /\ events[x].expr.bprop_app.cnode = u

\* Every cnode of the map was recorded after its cnode arguments: no
\* recording call has failed on a missing argument.
WellRecorded ==
  \A j \in 1..Len(anfnode_to_adjoin_) :
    LET n == anfnode_to_adjoin_[j].first
    IN IsCNode(n) =>
         \A i \in 1..(Len(inputs(n)) - 1) :
           IsCNode(input(n, i)) =>
             /\ Find(anfnode_to_adjoin_, input(n, i)) # 0
             /\ Find(anfnode_to_adjoin_, input(n, i)) < j

\* On such a tape the order of Finish is a reverse topological order.
ReverseTopologicalWhenWellRecorded == WellRecorded => C29_ReverseTopologicalOrder

\* The steps of the last Finish of a given kind.
StepsOf(kind) == {x \in 1..Len(events) : events[x].kind = kind}

\* C30: a Finish call runs the stop-gradient propagation at most once, and
\* once exactly when the tape-wide flag is set; the propagation visits the
\* map in reverse insertion order, sets each flag at most once and is over
\* before the sens is accumulated and before any backward call is built; the
\* flags Finish changes are those the propagation set, and with the flag
\* unset Finish changes no stop flag.
C30_PropagationOnceBeforeBackPropagate ==
  Finished =>
    /\ Cardinality(StepsOf("propagate")) =
         (IF need_propagate_stop_gradient_ THEN 1 ELSE 0)
    /\ need_propagate_stop_gradient_ => events[1].kind = "propagate"
    /\ \A x \in StepsOf("propagate") \cup StepsOf("stop") :
         \A y \in StepsOf("accumulate") \cup StepsOf("bprop_app") : x < y
    /\ \A x \in StepsOf("stop") :
         /\ \E p \in StepsOf("propagate") : p < x
         /\ IsCNode(events[x].node)
         /\ ~ret.before.stop_gradient_[events[x].node]
    /\ \A x1, x2 \in StepsOf("stop") :
         x1 < x2 => Find(anfnode_to_adjoin_, events[x1].node) >
                    Find(anfnode_to_adjoin_, events[x2].node)
    /\ stop_gradient_ =
         [n \in CNodes |-> \/ ret.before.stop_gradient_[n]
                           \/ \E x \in StepsOf("stop") : events[x].node = n]
    /\ ~need_propagate_stop_gradient_ =>
         /\ StepsOf("stop") = {}
         /\ stop_gradient_ = ret.before.stop_gradient_

\* n1, n2 and the update_state n5 were recorded: the propagation stopped n5
\* and nothing else, then the sens was accumulated and the backward call of
\* n2 was built.
C30_Witness ==
  /\ Finished
  /\ need_propagate_stop_gradient_
  /\ Len(events) >= 4
  /\ events[1].kind = "propagate"
  /\ events[2] = TapeEvent("stop", "n5", NullNode)
  /\ events[3].kind = "accumulate" /\ events[3].node = "n5"
  /\ events[4].kind = "bprop_app" /\ events[4].node = "n2"
  /\ stop_gradient_["n5"] /\ ~ret.before.stop_gradient_["n5"]

\* The sens parameter the last Finish added to the tape: the parameter after
\* the ones the tape had and the ones added for the weights.
SensOfLastFinish == Parameter(Len(ret.before.parameters) + Len(ret.weights) + 1)

\* The steps of the last Finish that accumulated its sens parameter.
SensSteps ==
  {x \in 1..Len(events) :
     events[x].kind = "accumulate" /\ events[x].expr = SensOfLastFinish}

\* C31: a recording call that returns leaves its cnode as the last recorded
\* node, with an adjoint in the map; Finish on a tape with a last recorded
\* node keeps that node and accumulates its sens parameter once, into the
\* adjoint of that node, before any other contribution of the call: afterwards
\* the sens is a summand of that adjoint's gradient and of no other adjoint's.
C31_SensSeedsLastNode ==
  /\ (Recorded /\ ret.exception = "none") =>
       /\ last_node_ = ret.cnode
       /\ Find(anfnode_to_adjoin_, ret.cnode) # 0
       /\ Find(ret.before.anfnode_to_adjoin_, ret.cnode) = 0
  /\ (Finished /\ ret.before.last_node_ # "nullptr") =>
       /\ last_node_ = ret.before.last_node_
       /\ Cardinality(SensSteps) = 1
       /\ \A x \in SensSteps :
            /\ events[x].node = last_node_
            /\ \A y \in 1..Len(events) : events[y].kind = "accumulate" => x <= y
       /\ \A j \in 1..Len(anfnode_to_adjoin_) :
            LET summands == Summands(anfnode_to_adjoin_[j].second.dout_)
                before == Summands(ret.before.anfnode_to_adjoin_[j].second.dout_)
            IN /\ Cardinality({k \in 1..Len(summands) : summands[k] = SensOfLastFinish}) =
                    (IF anfnode_to_adjoin_[j].first = last_node_ THEN 1 ELSE 0)
               /\ \A k \in 1..Len(before) : before[k] # SensOfLastFinish

\* n1 and n4 (a func graph call with a user bprop) were recorded: Finish
\* seeded n4, whose adjoint is neither the first nor the last entry of the map.
C31_Witness ==
  /\ Finished
  /\ ret.exception = "none"
  /\ last_node_ = "n4"
  /\ Find(anfnode_to_adjoin_, "n4") \notin {0, 1, Len(anfnode_to_adjoin_)}
  /\ SensSteps # {}
  /\ Summands(AdjointOf("n4").dout_) = << SensOfLastFinish >>

\* The nodes whose gradients the last Finish was asked for, in output order.
Requested ==
  (IF ret.grad_inputs THEN cell_inputs_ ELSE << >>) \o
  (IF ret.grad_weights THEN ret.weights ELSE << >>)

\* The gradient of a node was unset when step x of the last Finish was made:
\* it was unset before the call and no earlier step accumulated into it.
UnsetAt(node, x) ==
  /\ ret.before.anfnode_to_adjoin_[Find(anfnode_to_adjoin_, node)].second.dout_ = NullNode
  /\ \A y \in 1..(x - 1) : ~(events[y].kind = "accumulate" /\ events[y].node = node)

\* C32: RealDout of an adjoint whose gradient is unset is zeros_like of the
\* adjoint's output value and does not set the gradient: no accumulated
\* gradient ever holds a zeros_like summand, and a first contribution is the
\* gradient itself, not a sum.  In Finish, a backward call built for a cnode
\* without contribution gets zeros_like of the cnode's value as dout, and a
\* requested input or weight whose gradient is unset (as it is when all the
\* recorded cnodes using it are stopped) is zeros_like of its value in the
\* output tuple, its gradient staying unset; the only lookup error of
\* Finish on a tape with a last node is a requested node without adjoint.
C32_ZerosLikeWhenNoContribution ==
  /\ \A j \in 1..Len(anfnode_to_adjoin_) :
       LET dout == anfnode_to_adjoin_[j].second.dout_
           summands == Summands(dout)
       IN /\ \A k \in 1..Len(summands) : summands[k].kind # "zeros_like"
          /\ Len(summands) = 1 => dout = summands[1]
          /\ Len(summands) = 0 => dout = NullNode
  /\ Finished =>
       \A x \in StepsOf("bprop_app") :
         /\ UnsetAt(events[x].node, x) =>
              events[x].expr.dout = ZerosLike(ValueOf(events[x].node))
         /\ events[x].expr.dout.kind = "zeros_like" => UnsetAt(events[x].node, x)
  /\ (Finished /\ ret.exception = "none") =>
       \A k \in 1..Len(Requested) :
         LET node == Requested[k]
             j == Find(anfnode_to_adjoin_, node)
         IN /\ j # 0
            /\ (UsesOf(node) = {}
                  /\ ret.before.anfnode_to_adjoin_[j].second.dout_ = NullNode) =>
                 anfnode_to_adjoin_[j].second.dout_ = NullNode
            /\ anfnode_to_adjoin_[j].second.dout_ = NullNode =>
                 ret.value.output[k] = ZerosLike(ValueOf(node))
            /\ ret.value.output[k].kind = "zeros_like" =>
                 anfnode_to_adjoin_[j].second.dout_ = NullNode
  /\ (Finished /\ ret.before.last_node_ # "nullptr"
        /\ ret.exception = "BackPropagate adjoint does not exist for input") =>
       MissingRequested

\* n1 and the update_state n5 = UpdateState(w0, n1, w0) were recorded: n5 is
\* stopped, so is n1, and Finish returned a graph whose output gives the
\* requested weight w0 and the input p0 zeros_like gradients.
C32_Witness ==
  /\ Finished /\ ret.exception = "none"
  /\ ret.grad_inputs /\ ret.grad_weights
  /\ cell_inputs_ = << "p0" >> /\ ret.weights = << "w0" >>
  /\ Len(AdjointOf("w0").users_) = 2
  /\ stop_gradient_["n5"] /\ stop_gradient_["n1"]
  /\ AdjointOf("w0").dout_ = NullNode
  /\ ret.value.output = << ZerosLike(ValueOf("p0")), ZerosLike(ValueOf("w0")) >>

(***************************************************************************)
(* The well-formed graph under fair delivery: every actor declares as many *)
(* input data and controls as it has incoming arrows, and the caller       *)
(* triggers the entry actor once per run.                                  *)
(***************************************************************************)
\* The number of data arrows and control arrows that end at an actor; the
\* entry actor's one data input comes from the caller.
IncomingData(a) ==
  (IF a = EntryActor THEN 1 ELSE 0) +
  Sum([b \in Actors |->
         Cardinality({i \in 1..Len(output_data_arrows_(b)) :
                        output_data_arrows_(b)[i].to_op_id_ = a})])

IncomingControls(a) ==
  Sum([b \in Actors |->
         Cardinality({i \in 1..Len(output_control_arrows_(b)) :
                        output_control_arrows_(b)[i] = a})])

InitWellFormed ==
  /\ Init
  /\ input_datas_num_ = [a \in Actors |-> IncomingData(a)]
  /\ input_controls_num_ = [a \in Actors |-> IncomingControls(a)]

\* The caller triggers the entry actor for a run that it has not triggered.
DispatchOnce(seq) ==
  /\ injected[seq] = 0
  /\ Dispatch(seq)

NextWellFormed ==
  \/ \E seq \in Runs : DispatchOnce(seq)
  \/ \E a \in Actors : HandleRunOpData(a)
  \/ \E a \in Actors : HandleRunOpControl(a)
  \/ \E a \in Actors : HandleRunBatchOpData(a)

\* ActorDispatcher::Send is asynchronous and every actor keeps handling its
\* mailbox: a message at the head of a mailbox is eventually handled.
FairDelivery ==
  \A a \in Actors :
    /\ WF_vars(HandleRunOpData(a))
    /\ WF_vars(HandleRunOpControl(a))
    /\ WF_vars(HandleRunBatchOpData(a))

SpecWellFormed == InitWellFormed /\ [][NextWellFormed]_vars /\ FairDelivery

\* No actor holds pending data or control of a run, and no message of the
\* run is in a mailbox.
NothingPending(seq) ==
  \A a \in Actors :
    /\ seq \notin DOMAIN input_op_datas_[a]
    /\ seq \notin DOMAIN input_op_controls_[a]
    /\ \A j \in 1..Len(mailbox[a]) : mailbox[a][j].seq # seq

\* A run is over: every actor has fired once for it, its context holds a
\* terminal signal, and nothing of it is pending.
RunCompleted(seq) ==
  /\ \A a \in Actors : runCount[a][seq] = 1
  /\ context[seq] # << >>
  /\ NothingPending(seq)

\* C33: in the well-formed graph with fair delivery, no actor fires twice
\* for a run; a run whose entry actor was triggered leads to every actor
\* having fired exactly once for it, a terminal signal on its context and no
\* pending data, control or message of it anywhere; and it stays so.
C33_EveryActorFiresOnce ==
  /\ [](\A a \in Actors, seq \in Runs : runCount[a][seq] <= 1)
  /\ \A seq \in Runs : (injected[seq] = 1) ~> RunCompleted(seq)
  /\ [][\A seq \in Runs : RunCompleted(seq) => RunCompleted(seq)']_vars

\* Both runs were triggered and are over; Y fired on a control message and
\* W on a batch.
C33_Witness ==
  /\ \A seq \in Runs : injected[seq] = 1 /\ RunCompleted(seq)
  /\ \A seq \in Runs : Failed(seq) = FALSE
  /\ input_controls_num_["Y"] = 1 /\ input_datas_num_["W"] = 2
  /\ \A seq \in Runs : "success" \in Range(context[seq])

(***************************************************************************)
(* One actor receiving data and control messages of the runs in any number *)
(* and order, whatever it declares.                                        *)
(***************************************************************************)
\* Messages sent to the actor, over all runs and both kinds.
MaxArrivals == 4

InitOverflow ==
  /\ input_datas_num_ \in {DeclaredNum(1, k, 2) : k \in 0..MaxPending}
  /\ input_controls_num_ \in
       {[a \in Actors |-> IF a = EraseActor THEN c ELSE 0] : c \in 0..MaxPending}
  /\ output_data_nodes_ = OutputDataNodes
  /\ output_data_ = [a \in Actors |-> InitOutputData(a).output_data_]
  /\ batch_output_data_ = [a \in Actors |-> InitOutputData(a).batch_output_data_]
  /\ to_stack_data_ = [a \in Actors |-> << >>]
  /\ input_op_datas_ = [a \in Actors |-> EmptyMap]
  /\ input_op_controls_ = [a \in Actors |-> EmptyMap]
  /\ mailbox = [a \in Actors |-> << >>]
  /\ context = [seq \in Runs |-> << >>]
  /\ injected = [seq \in Runs |-> 0]
  /\ delivered = [a \in Actors |-> [seq \in Runs |-> 0]]
  /\ runCount = [a \in Actors |-> [seq \in Runs |-> 0]]
  /\ sent = [a \in Actors |-> [seq \in Runs |->
               [i \in 1..Len(output_data_arrows_(a)) |-> 0]]]
  /\ last = [method |-> "none", actor |-> "none", seq |-> 0, batch |-> << >>,
             steps |-> << >>]
  /\ solo = [a \in Actors |-> [seq \in Runs |->
               [input_op_datas_ |-> EmptyMap, input_op_controls_ |-> EmptyMap,
                runs |-> 0]]]
  /\ NoCell
  /\ call = [op |-> "arrivals", count |-> 0]

\* Some actor sends the actor a message of a run: ActorDispatcher::Send.
Arrive(msg) ==
  /\ call.count < MaxArrivals
  /\ call' = [call EXCEPT !.count = @ + 1]
  /\ mailbox' = [mailbox EXCEPT ![EraseActor] = Append(@, msg)]
  /\ UNCHANGED << input_datas_num_, input_controls_num_, output_data_nodes_,
                  output_data_, batch_output_data_, to_stack_data_, input_op_datas_,
                  input_op_controls_, context, injected, delivered, runCount, sent,
                  last, solo, tapeVars >>

NextOverflow ==
  \/ \E seq \in Runs : Arrive(Message("RunOpData", CallerPtr(seq), "caller", seq))
  \/ \E seq \in Runs : Arrive(Message("RunOpControl", NoPtr, "Z", seq))
  \/ HandleRunOpData(EraseActor)
  \/ HandleRunOpControl(EraseActor)

SpecOverflow == InitOverflow /\ [][NextOverflow]_vars

\* The pending data (control) count of a run is above the count declared.
DataAbove(seq) ==
  PendingLen(input_op_datas_[EraseActor], seq) > input_datas_num_[EraseActor]

ControlAbove(seq) ==
  PendingLen(input_op_controls_[EraseActor], seq) > input_controls_num_[EraseActor]

\* The actor does not fire for the run in this step and no pending entry of
\* the run is erased or shortened.
NoFiringNoErase(seq) ==
  /\ runCount'[EraseActor][seq] = runCount[EraseActor][seq]
  /\ PendingLen(input_op_datas_'[EraseActor], seq) >=
       PendingLen(input_op_datas_[EraseActor], seq)
  /\ PendingLen(input_op_controls_'[EraseActor], seq) >=
       PendingLen(input_op_controls_[EraseActor], seq)

\* C34 as stated: once the pending data or control count of a run is above
\* the declared count, whatever that count is, the actor does not fire for
\* the run any more and the run's entries are never erased.
C34_Original ==
  [][\A seq \in Runs :
       (DataAbove(seq) \/ ControlAbove(seq)) =>
         /\ (DataAbove(seq) \/ ControlAbove(seq))'
         /\ NoFiringNoErase(seq)]_vars

\* The count is above a requirement the actor has: a declared count of 0
\* means the dimension is not looked at.
Overflowed(seq) ==
  \/ input_datas_num_[EraseActor] # 0 /\ DataAbove(seq)
  \/ input_controls_num_[EraseActor] # 0 /\ ControlAbove(seq)

\* C34, amended: once the pending data (control) count of a run is above a
\* declared count that is not 0, in every continuation it stays above, the
\* actor never fires for the run and no entry of the run is erased.
C34_OverflowIsFinal ==
  [][\A seq \in Runs :
       Overflowed(seq) => Overflowed(seq)' /\ NoFiringNoErase(seq)]_vars

\* The actor declares one data and two controls; for run 1 it holds two data
\* and one control: the overflow happened while it waited for a control, and
\* two more messages of the run were handled since without a firing.
C34_Witness ==
  /\ input_datas_num_[EraseActor] = 1 /\ input_controls_num_[EraseActor] = 2
  /\ PendingLen(input_op_datas_[EraseActor], 1) = 2
  /\ PendingLen(input_op_controls_[EraseActor], 1) = 2
  /\ last.method = "RunOpControl" /\ last.seq = 1
  /\ last.steps[1].error = "data" /\ ~last.steps[1].is_run
  /\ runCount[EraseActor][1] = 0
  /\ call.count = 4 /\ mailbox[EraseActor] = << >>

\* The actor's output data arrows differ in number from its cached envelopes
\* or from its output data nodes, and the actor is not a control-flow actor.
SizeMismatch(a) ==
  /\ \/ Len(output_data_arrows_(a)) # Len(output_data_[a])
     \/ Len(output_data_arrows_(a)) # output_data_nodes_[a]
  /\ IsBeforeSwitchActor(a)

\* C35: when an actor with such a mismatch fires, SendOutput appends a
\* failure to the run's context for each firing and nothing else: no message
\* reaches any other actor's mailbox, no envelope is refreshed or allocated,
\* and no success is signalled.
C35_MismatchFailsWithoutSending ==
  [][\A a \in Actors :
       (SizeMismatch(a) /\ runCount'[a] # runCount[a]) =>
         /\ \A b \in Actors \ {a} : mailbox'[b] = mailbox[b]
         /\ mailbox'[a] = Tail(mailbox[a])
         /\ output_data_' = output_data_
         /\ to_stack_data_' = to_stack_data_
         /\ \A seq \in Runs :
              context'[seq] =
                context[seq] \o
                  [j \in 1..(runCount'[a][seq] - runCount[a][seq]) |-> "failed"]
         /\ \A j \in 1..Len(last'.steps) :
              last'.steps[j].is_run =>
                last'.steps[j].log = << Event("failed", "none", 0) >>]_vars

\* Z, on which InitOutputData was not called, has fired: the run failed and
\* neither W, the stack actor nor Y received anything from Z.
C35_Witness ==
  /\ last.actor = "Z"
  /\ output_data_["Z"] = << >> /\ output_data_nodes_["Z"] = 3
  /\ runCount["Z"][last.seq] = 1
  /\ context[last.seq] = << "failed" >>
  /\ mailbox["W"] = << >> /\ mailbox["S_StackActor"] = << >>
  /\ \A j \in 1..Len(mailbox["Y"]) : mailbox["Y"][j].from # "Z"

\* C36: a recording call that raises because an argument of the cnode is a
\* cnode without adjoint leaves the tape as it found it: the adjoint map,
\* with every user list, and the last recorded node are unchanged.
C36_FailedRecordingLeavesTapeUnchanged ==
  (Recorded /\ ret.exception = "Cannot find adjoint for anfnode") =>
    /\ Find(anfnode_to_adjoin_, ret.cnode) = 0
    /\ last_node_ = ret.before.last_node_
    /\ anfnode_to_adjoin_ = ret.before.anfnode_to_adjoin_

\* C37: Finish on a tape without a last recorded node ends with a reported
\* error and returns no gradient graph, whatever the weights and the flags.
C37_FinishWithoutRecordingIsReported ==
  (Finished /\ ret.before.last_node_ = "nullptr") =>
    /\ ret.exception \in FatalErrors
    /\ ret.value = "nullptr"

\* The last call was the second Finish on the tape's own handle, on a tape
\* with a last recorded node.
SecondFinish ==
  /\ Finished
  /\ calls.finishes = 2 /\ calls.others = 0
  /\ ret.before.last_node_ # "nullptr"

\* The contributions one complete Finish accumulates into a node: one per use
\* by a recorded cnode that is not stopped, and the sens for the last node.
ContributionsPerFinish(node) ==
  Cardinality(UsesOf(node)) + (IF node = last_node_ THEN 1 ELSE 0)

\* C38: a second Finish on a tape is carried out like the first: it appends
\* #weights + 1 parameters to the tape, accumulates a new sens parameter into
\* the last node's gradient and builds one backward call per recorded cnode
\* that is not stopped; every gradient keeps what it held and gains the
\* call's contributions, so that on a tape whose recordings all succeeded
\* every gradient holds twice the contributions of one call.
C38_FinishAccumulatesAgain ==
  SecondFinish =>
    /\ Len(tape_.parameters) = Len(ret.before.parameters) + Len(ret.weights) + 1
    /\ Len(anfnode_to_adjoin_) = Len(ret.before.anfnode_to_adjoin_)
    /\ Cardinality(SensSteps) = 1
    /\ \E k \in 1..Len(ret.before.parameters) :
         /\ ret.before.parameters[k] = "sens"
         /\ Parameter(k) # SensOfLastFinish
         /\ \E x \in 1..Len(Summands(AdjointOf(last_node_).dout_)) :
              Summands(AdjointOf(last_node_).dout_)[x] = Parameter(k)
    /\ ret.exception # "BackPropagate adjoint does not exist input" =>
         /\ { events[x].node : x \in StepsOf("bprop_app") } =
              { n \in CNodes : Find(anfnode_to_adjoin_, n) # 0 /\ ~stop_gradient_[n] }
         /\ \A x, y \in StepsOf("bprop_app") : events[x].node = events[y].node => x = y
         /\ \A j \in 1..Len(anfnode_to_adjoin_) :
              LET after == Summands(anfnode_to_adjoin_[j].second.dout_)
                  before == Summands(ret.before.anfnode_to_adjoin_[j].second.dout_)
              IN /\ Len(after) =
                      Len(before) + ContributionsPerFinish(anfnode_to_adjoin_[j].first)
                 /\ SubSeq(after, 1, Len(before)) = before
                 /\ WellRecorded =>
                      Len(after) = 2 * ContributionsPerFinish(anfnode_to_adjoin_[j].first)

\* n1 = F(p0) and n2 = G(n1, p0) were recorded and the tape was finished
\* twice, the second time with a weight list of its own: the second call
\* returned a graph, the tape has grown by the parameters of both calls, the
\* gradient of n2 is the sum of two sens parameters and that of p0 has four
\* summands.
C38_Witness ==
  /\ SecondFinish
  /\ ret.exception = "none"
  /\ last_node_ = "n2"
  /\ Find(anfnode_to_adjoin_, "n1") # 0 /\ Find(anfnode_to_adjoin_, "p0") # 0
  /\ WellRecorded
  /\ ret.weights = << >>
  /\ Len(tape_.parameters) > Len(cell_inputs_) + 2
  /\ Len(Summands(AdjointOf("n2").dout_)) = 2
  /\ Len(Summands(AdjointOf("p0").dout_)) = 4
  /\ Cardinality(StepsOf("bprop_app")) = 2

\* ---------------------------------------------------------------------------
\* SparseApplyLazyAdamPSKernelMod::InitKernel
\* (plugin/device/cpu/kernel/ps/sparse_apply_lazy_adam_ps_kernel.cc)
\* ---------------------------------------------------------------------------

\* The number of shapes InitKernel asks for.
kSparseApplyLazyAdamPSInputsSize == 11

\* The largest rank of the shapes handed to InitKernel.
MaxRank == 2

\* The dimension sizes of those shapes.
Dims == {1, 2}

ShapeVectors == UNION {[1..r -> Dims] : r \in 0..MaxRank}

\* PServerKernel::Shard(shape, axis = 0): the first dimension becomes this
\* server's share of it; a shape without that axis is refused.  The share is
\* Util::LocalShard: ceil(first_dim / server_num) rows per server, the rest
\* (possibly none) on the last ones.
Shard(shape, rank_id_, pserver_num_) ==
  IF Len(shape) = 0
    THEN [exception |-> "Shape size is invalid.", shape |-> shape]
    ELSE LET first_dim == shape[1]
             work_load == (first_dim + pserver_num_ - 1) \div pserver_num_
             remain    == first_dim - work_load * rank_id_
             local     == IF remain > work_load THEN work_load
                          ELSE IF remain > 0 THEN remain ELSE 0
         IN  [exception |-> "", shape |-> [shape EXCEPT ![1] = local]]

\* IsSameShape(a, b): the same rank and the same size in every dimension.
IsSameShape(a, b) ==
  /\ Len(a) = Len(b)
  /\ \A i \in 1..Len(a) : a[i] = b[i]

\* The product of the dimensions 1 .. size - 1 of var (0-based), as the loop
\* of InitKernel accumulates it into var_outer_dim_size_.
RECURSIVE OuterDimSize(_, _)
OuterDimSize(var_shape, i) ==
  IF i > Len(var_shape) THEN 1 ELSE var_shape[i] * OuterDimSize(var_shape, i + 1)

\* InitKernel(cnode, shapes) on a kernel of parameter server rank_id_ out of
\* pserver_num_, serving worker_num_ workers: the exception it raises ("" when
\* it returns), the errors it logs, and the members it has set on return.
InitKernel(shape_vec, rank_id_, pserver_num_, worker_num_) ==
  LET Raise(msg) == [exception |-> msg, errors |-> << >>,
                     var_first_dim_size_ |-> 0, var_outer_dim_size_ |-> 1,
                     indices_size_ |-> 0, workspace_size_list_ |-> << >>]
  IN
  IF Len(shape_vec) < kSparseApplyLazyAdamPSInputsSize
    THEN Raise("SparseApplyLazyAdamPSKernelMod needs 11 input shapes")
  ELSE
  LET var_sharded   == Shard(shape_vec[1], rank_id_, pserver_num_)
      m_sharded     == Shard(shape_vec[2], rank_id_, pserver_num_)
      v_sharded     == Shard(shape_vec[3], rank_id_, pserver_num_)
      var_shape     == var_sharded.shape
      m_shape       == m_sharded.shape
      v_shape       == v_sharded.shape
      grad_shape    == shape_vec[10]
      indices_shape == shape_vec[11]
      mismatch      == {i \in 2..Len(var_shape) : var_shape[i] # grad_shape[i]}
  IN
  IF var_sharded.exception # "" THEN Raise(var_sharded.exception)
  ELSE IF m_sharded.exception # "" THEN Raise(m_sharded.exception)
  ELSE IF v_sharded.exception # "" THEN Raise(v_sharded.exception)
  ELSE IF Len(var_shape) = 0 THEN Raise("var must be at least 1D")
  ELSE IF Len(var_shape) # Len(grad_shape)
    THEN Raise("var and grad must have the same shape size")
  ELSE IF ~IsSameShape(var_shape, m_shape)
    THEN Raise("var and m must have the same shape")
  ELSE IF ~IsSameShape(var_shape, v_shape)
    THEN Raise("var and v must have the same shape")
  ELSE IF mismatch # {}
    THEN Raise("The shape of var and grad must be equal in dimension")
  ELSE IF Len(indices_shape) # 1 THEN Raise("indices must be 1D")
  ELSE
  LET indices_size_       == indices_shape[1]
      var_outer_dim_size_ == OuterDimSize(var_shape, 2)
  IN  [exception |-> "",
       errors |-> IF grad_shape[1] # indices_size_
                    THEN << "The first dimension of grad shape must be equal to indices" >>
                    ELSE << >>,
       var_first_dim_size_ |-> var_shape[1],
       var_outer_dim_size_ |-> var_outer_dim_size_,
       indices_size_ |-> indices_size_,
       workspace_size_list_ |->
         << indices_size_ * var_outer_dim_size_ * 4 * worker_num_,
            indices_size_ * 4 * worker_num_,
            indices_size_ * var_outer_dim_size_ * 4 * worker_num_,
            indices_size_ * 4 * worker_num_ >>]

\* Shapes to compare with var: var itself, var with one dimension changed, var
\* without its last dimension, and the empty shape.
Like(var) ==
  {var, << >>}
    \cup {[var EXCEPT ![i] = CHOOSE d \in Dims : d # var[i]] : i \in 1..Len(var)}
    \cup {SubSeq(var, 1, Len(var) - 1) : r \in {Len(var)} \ {0}}

\* The shapes of indices: of no, one and two dimensions.
IndicesShapes == {<< >>} \cup {<< d >> : d \in Dims} \cup {<< d, d >> : d \in Dims}

\* The shape lists handed to InitKernel: the shapes of var, m, v, of six
\* scalars, of grad and of indices, or that list without its last shape.
ShapeLists ==
  LET Full == UNION {{<< var, m, v, << >>, << >>, << >>, << >>, << >>, << >>, grad, indices >> :
                        m \in Like(var), v \in Like(var),
                        grad \in ShapeVectors, indices \in IndicesShapes} :
                     var \in ShapeVectors}
  IN  Full \cup {SubSeq(s, 1, Len(s) - 1) : s \in Full}

InitInitKernel ==
  /\ ActorsIdle
  /\ NoCell
  /\ \E shapes \in ShapeLists, pserver_num_ \in {2} :
       \E rank_id_ \in 0..(pserver_num_ - 1) :
         call = [op |-> "InitKernel", shapes |-> shapes, rank_id_ |-> rank_id_,
                 pserver_num_ |-> pserver_num_, worker_num_ |-> 1,
                 done |-> FALSE, ret |-> << >>]

\* One kernel is initialised with the shapes of the call.
ApplyInitKernel ==
  /\ call.op = "InitKernel"
  /\ ~call.done
  /\ call' = [call EXCEPT !.done = TRUE,
                          !.ret = InitKernel(call.shapes, call.rank_id_,
                                             call.pserver_num_, call.worker_num_)]
  /\ UNCHANGED << actorVars, tapeVars >>

NextInitKernel == ApplyInitKernel

SpecInitKernel == InitInitKernel /\ [][NextInitKernel]_vars

\* The shapes of a finished InitKernel call, by the names of the source.
ShapesOf(shape_vec) ==
  [var |-> shape_vec[1], m |-> shape_vec[2], v |-> shape_vec[3],
   grad |-> shape_vec[10], indices |-> shape_vec[11]]

\* The malformed shape lists: fewer than 11 shapes, var empty, var and grad of
\* different rank, var not of the shape of m or of v, var and grad different
\* in a dimension i >= 1, indices not 1-D, or the first dimension of grad not
\* the number of indices.
Malformed(shape_vec) ==
  \/ Len(shape_vec) < kSparseApplyLazyAdamPSInputsSize
  \/ LET s == ShapesOf(shape_vec) IN
       \/ Len(s.var) = 0
       \/ Len(s.var) # Len(s.grad)
       \/ ~IsSameShape(s.var, s.m)
       \/ ~IsSameShape(s.var, s.v)
       \/ \E i \in 2..Len(s.var) : s.var[i] # s.grad[i]
       \/ Len(s.indices) # 1
       \/ s.grad[1] # s.indices[1]

InitKernelDone == call.op = "InitKernel" /\ call.done

\* C39: InitKernel never completes normally on a malformed shape list: the
\* call ends with an exception.
C39_MalformedShapesAreFatal ==
  (InitKernelDone /\ Malformed(call.shapes)) => call.ret.exception # ""

\* ---------------------------------------------------------------------------
\* MSTensorRef::Convert and MSTensorRef::ConvertTuple (part_002)
\* ---------------------------------------------------------------------------

\* The deepest nesting of VectorRefs handed to Convert.
MaxNesting == 2

\* The most items of one VectorRef.
MaxItems == 2

\* The call frames the stack of the thread has room for.
MaxStack == 4

\* BaseRef values: an MSTensorRef wrapping a tensor, a VectorRef of BaseRefs,
\* and a value of another class.
TensorRef(t) == [kind |-> "MSTensorRef", ms_tensor_ |-> t, elements |-> << >>]
VectorRef(items) == [kind |-> "VectorRef", ms_tensor_ |-> "none", elements |-> items]
OtherRef == [kind |-> "Int64Imm", ms_tensor_ |-> "none", elements |-> << >>]

RECURSIVE BaseRefs(_)
BaseRefs(nesting) ==
  LET Leaves == {TensorRef("t1"), TensorRef("t2"), OtherRef}
  IN  IF nesting = 0 THEN Leaves
      ELSE Leaves \cup {VectorRef(items) :
                          items \in UNION {[1..k -> BaseRefs(nesting - 1)] : k \in 0..MaxItems}}

InitConvert ==
  /\ ActorsIdle
  /\ NoCell
  /\ \E args \in BaseRefs(MaxNesting) :
       call = [op |-> "Convert", args |-> args, stack |-> << >>,
               outcome |-> "called", res |-> << >>]

\* A ConvertTuple frame: its argument, the loop index i and the vector outs.
Frame(args) == [args |-> args, i |-> 0, outs |-> << >>]

\* Convert(args): a VectorRef goes to ConvertTuple, an MSTensorRef gives its
\* tensor, anything else raises.
Convert ==
  /\ call.op = "Convert"
  /\ call.outcome = "called"
  /\ call' =
       IF call.args.kind = "VectorRef"
         THEN [call EXCEPT !.outcome = "running", !.stack = << Frame(call.args) >>]
       ELSE IF call.args.kind = "MSTensorRef"
         THEN [call EXCEPT !.outcome = "returned", !.res = << call.args.ms_tensor_ >>]
       ELSE [call EXCEPT !.outcome = "exception"]
  /\ UNCHANGED << actorVars, tapeVars >>

\* One step of the innermost ConvertTuple call: the test of the loop and, when
\* it passes, one iteration; when it fails, the return to the caller, which
\* inserts the result at the end of its outs and goes to its next item.  The
\* recursive call is made on args, the argument of the calling frame, not on
\* item; a call the stack has no room for ends the process.
ConvertTuple ==
  /\ call.op = "Convert"
  /\ call.outcome = "running"
  /\ LET depth == Len(call.stack)
         top   == call.stack[depth]
         args  == top.args.elements
     IN
     call' =
       IF top.i >= Len(args)
         THEN IF depth = 1
                THEN [call EXCEPT !.outcome = "returned", !.res = top.outs, !.stack = << >>]
                ELSE [call EXCEPT !.stack =
                        [SubSeq(call.stack, 1, depth - 1) EXCEPT
                           ![depth - 1].outs = @ \o top.outs,
                           ![depth - 1].i = @ + 1]]
       ELSE LET item == args[top.i + 1] IN
         IF item.kind = "VectorRef"
           THEN IF depth < MaxStack
                  THEN [call EXCEPT !.stack = Append(@, Frame(top.args))]
                  ELSE [call EXCEPT !.outcome = "stack overflow"]
         ELSE IF item.kind = "MSTensorRef"
           THEN [call EXCEPT !.stack[depth].outs = Append(@, item.ms_tensor_),
                             !.stack[depth].i = @ + 1]
         ELSE [call EXCEPT !.outcome = "exception", !.stack = << >>]
  /\ UNCHANGED << actorVars, tapeVars >>

NextConvert == Convert \/ ConvertTuple

SpecConvert == InitConvert /\ [][NextConvert]_vars

\* The tensors of a BaseRef, nested ones included, from left to right.
RECURSIVE Flattened(_)
Flattened(ref) ==
  LET RECURSIVE Items(_, _)
      Items(items, i) ==
        IF i > Len(items) THEN << >> ELSE Flattened(items[i]) \o Items(items, i + 1)
  IN  IF ref.kind = "MSTensorRef" THEN << ref.ms_tensor_ >>
      ELSE Items(ref.elements, 1)

\* A BaseRef that is, or holds at some depth, a value that is neither an
\* MSTensorRef nor a VectorRef.
RECURSIVE HasOther(_)
HasOther(ref) ==
  \/ ref.kind \notin {"MSTensorRef", "VectorRef"}
  \/ \E i \in 1..Len(ref.elements) : HasOther(ref.elements[i])

\* C40: Convert applied to a VectorRef always ends, by an exception when some
\* item is neither an MSTensorRef nor a VectorRef and otherwise by returning
\* the tensors of all items, nested ones included, from left to right, each
\* once.
C40_ConvertFlattensEveryNesting ==
  (call.op = "Convert" /\ call.args.kind = "VectorRef") =>
     /\ call.outcome # "stack overflow"
     /\ call.outcome = "exception" => HasOther(call.args)
     /\ call.outcome = "returned" =>
          ~HasOther(call.args) /\ call.res = Flattened(call.args)

====
